---- MODULE Spec2Model ----
(***************************************************************************)
(* Telegram -> WhatsApp relay: the delivery queue, the drain loop and the  *)
(* connection lifecycle of the nine bridge variants of the repository.     *)
(*                                                                         *)
(*   idxA   src/index.js 1-412            idxB   src/index.js 414-830      *)
(*   idxC   src/index.js 832-1276         p002   src/unnamed/part_002      *)
(*   p003A  src/unnamed/part_003 1-445    p003B  src/unnamed/part_003 447- *)
(*   p004A  src/unnamed/part_004 1-530    p004B  src/unnamed/part_004 532- *)
(*   p005   src/unnamed/part_005                                           *)
(*                                                                         *)
(* One behaviour runs one variant (chosen in Init).  A step is one run of  *)
(* a handler or of the continuation of an async function up to its next    *)
(* await on I/O or on a timer (the JavaScript event loop runs such a run   *)
(* to completion).  Time is not modelled: a timer or an I/O completion may *)
(* fire at any later step.                                                 *)
(*                                                                         *)
(* Spec is the bridge.  SpecResolve is the destination lookup of the        *)
(* 'ready' handler, and of selectGroupByName of the management bot, on a    *)
(* concrete chat listing.  SpecStatus is the bridge of three programs with  *)
(* the health endpoint and the status command.  SpecInit is the            *)
(* initialisation of p004B (initializeWhatsApp, its retry and reconnect     *)
(* timers, the restart command).  SpecClient is the client lifecycle of    *)
(* idxC (initWhatsApp, its handlers and timers, the restart command).      *)
(* SpecManage is the management bot (management.js): its 'ready' and       *)
(* 'disconnected' handlers and the commands and callbacks that choose the  *)
(* group.  SpecQueue is MessageQueue (messageQueue.js).                    *)
(*                                                                         *)
(* Left out: the QR and 'authenticated' events and the session backups     *)
(* started from timers, the admin commands other than clear, status and    *)
(* restart, the retry of setupTargetCommunity after an error, a failing    *)
(* admin notification, a download or a direct-path send that never         *)
(* settles, a rejected chat listing that nobody catches, the forwarding    *)
(* and session commands of the management bot, and sessionManager.js.      *)
(* In Spec the initialisation is one event (ClientReady); its retries are  *)
(* in SpecInit and SpecClient only.                                        *)
(***************************************************************************)
EXTENDS Integers, Sequences, FiniteSets, TLC

\* ----------------------------------------------------------------- bounds
MaxJobs == 3        \* channel posts per behaviour
MaxJobsRetry == 2   \* channel posts per behaviour of p004B (every post can be sent,
                    \* queued, downloaded and reinserted there)
MaxJobsBatch == 6   \* channel posts per behaviour of p005 (a full batch and one more)
MaxFails == 2       \* failed downloads/sends per behaviour
MaxDisc == 1        \* 'disconnected' / 'close' events per behaviour
MaxKicks == 2       \* scheduled drain calls (setImmediate/setTimeout) pending at once
MaxInitAttempts == 6 \* calls of initializeWhatsApp between two resets of initAttempts
MaxInitTimers == 2  \* setTimeout(initializeWhatsApp, ..) timers pending at once
MaxInitCalls == 2   \* calls of initializeWhatsApp suspended at once
MaxOrphans == 1     \* sockets alive that sock no longer refers to
MaxClients == 3     \* clients made by initWhatsApp per behaviour
MaxClientTimers == 2 \* setTimeout(() => initWhatsApp(), ..) timers pending at once
MaxRestarts == 1    \* restart commands suspended at once
MaxLoads == 1       \* loadGroups calls of commands and callbacks pending at once
MaxAdds == 6        \* add(fn) calls per behaviour
MaxClears == 2      \* clear() calls per behaviour
MaxHung == 1        \* sendMessage calls of the drain function that never settle
MaxNameLen == 2     \* letters in a chat name or in the configured name
MaxChats == 2       \* chats in the listing the transport returns
MaxDrains == 2      \* activations of the drain function that can coexist

\* ------------------------------------------------------ program constants
CONCURRENT_MESSAGES == 5    \* part_005:29
BATCH_002 == 10             \* part_002:160  messageQueue.splice(0, 10)
LIST_MAX == 10              \* index.js:632  .slice(0, 10)
MAX_INIT == 5       \* part_004:822 if (initAttempts < 5)
CONCURRENCY == 3    \* messageQueue.js:6 concurrency: 3
INTERVAL_CAP == 5   \* messageQueue.js:8 intervalCap: 5
RETRIES == 3                \* index.js:180  let retries = 3

VARIABLES
    variant,        \* which bridge variant this behaviour runs
    isReady,        \* isReady / isWhatsAppReady
    handle,         \* whatsappGroupId / targetChat / targetGroupId / targetAnnouncementId
    messageQueue,   \* messageQueue: sequence of job ids, head first
    isProcessing,   \* isProcessing
    conn,           \* outbound client: "init" (initialising), "up" (ready emitted), "down"
                    \* (disconnected), "failed" (authentication failed)
    reconnectTimer, \* a setTimeout(initWhatsApp / initializeWhatsApp) is pending
    readyPc,        \* the 'ready'/'open' handler: "idle", "chats" (awaiting the chat
                    \* listing), "notify" or "upload" (awaiting the session backup)
    dpc,            \* per activation of the drain function: where it is suspended
    dcur,           \* per activation: the job of the pending sequential send (0: none)
    dtries,         \* per activation: attempts left for dcur (index.js retries)
    dbatch,         \* per activation: messagesToProcess / batch, the jobs of its latest batch
    dpend,          \* per activation: jobs of the batch whose send has not settled
    kicks,          \* pending setImmediate/setTimeout calls of the drain function
    flight,         \* per job: the channel_post handler's direct path ("none","dl","send")
    kind,           \* per job: kind of the post ("none" until it arrives)
    arrived,        \* number of posts received so far
    log,            \* history: every sendMessage call [job, via, open, late], in call order
    enq,            \* history: jobs in the order they were appended to the queue
    nfail,          \* history: per job, failed downloads/sends
    acked,          \* history: jobs whose sendMessage resolved
    disc,           \* history: number of disconnects so far
    retryPending,   \* history: job reinserted at the head and not dequeued since (0: none)
    retryMark,      \* history: value of arrived when retryPending was reinserted
    lastResolve,    \* history: outcome of the latest 'ready' handler's lookup
    reentry,        \* history: a drain call returned because isProcessing was set
    atClear,        \* history: per job, where it was at the latest clear command
    policy,         \* history: what was done with the jobs whose send finally failed
    spliceLeft,     \* history: number of jobs the latest splice left in the queue
    hung,           \* jobs whose pending sendMessage call of the drain function never settles
    gapOwed,        \* history: a batch ended with jobs left and no delay has elapsed since
    exited,         \* the process has terminated; the other variables keep the values
                    \* they had when it did
    target,         \* WHATSAPP_GROUP_NAME / GROUP_NAME / groupName: the configured name
    chats,          \* the chat listing getChats() returns: sequence of [name, isGroup]
    resolved,       \* index in chats of the chat the 'ready' handler found (0: none, -1: not run)
    selected,       \* the same for selectGroupByName of the management bot
    diag,           \* what the 'ready' handler reported when it found no chat
    answer,         \* what the health endpoint or the status command answered in the
                    \* latest step, if that step was a query
    initAttempts,   \* part_004:585 calls of initializeWhatsApp since the latest reset
    initTimers,     \* pending setTimeout(initializeWhatsApp, ..) timers
    initCalls,      \* calls of initializeWhatsApp suspended in their try block:
                    \* [fresh, stale], stale ones began before the latest reset
    sock,           \* part_004:578 sock: "none", "connecting", "open", "closed"
    adminTold,      \* the 'Failed to initialize WhatsApp after 5 attempts' message was sent
    failsInRow,     \* failed calls in a row among those begun since the latest reset
    orphans,        \* sockets made by initializeWhatsApp that sock no longer refers to
                    \* and that have not reported 'open' or 'close' yet
    initEv,         \* what the latest step of the initialisation was
    isInitializing, \* index.js:878 isInitializing
    clients,        \* per client made by initWhatsApp: "none" (not made), "initialising",
                    \* "connected", "aborted" (destroyed while initialize() is pending),
                    \* "gone"
    whatsappClient, \* index.js:905 the client whatsappClient refers to (0: none)
    clientTimers,   \* pending setTimeout(() => initWhatsApp(), ..) timers
    restarting,     \* restart commands suspended at await whatsappClient.destroy()
    currentGroupId, \* management.js:13 currentGroupId: index in chats of the group (0: null)
    availableGroups, \* management.js:15 availableGroups: indices in chats of the groups
    menuPc,         \* the 'ready' handler of management.js: "idle", "groups" (awaiting
                    \* loadGroups), "settings" (awaiting loadSettings)
    loads,          \* loadGroups calls of commands and callbacks awaiting getChats()
    mclient,        \* the client of management.js: "initialising", "connected", "lost"
    mtimer,         \* a setTimeout(() => initWhatsApp(), 2000) of management.js is pending
    pqueue,         \* messageQueue.js:5 this.queue: the added functions not started yet
    running,        \* the added functions that have started and have not settled
    started,        \* the added functions in the order in which they were started
    added,          \* number of add(fn) calls so far
    intervalCount,  \* functions started in the current interval of 100 ms
    cleared         \* number of clear() calls so far

bridgeVars == <<variant, isReady, handle, messageQueue, isProcessing, conn, reconnectTimer,
          readyPc, dpc, dcur, dtries, dbatch, dpend, kicks, flight, kind, arrived, log, enq,
          nfail, acked, disc, retryPending, retryMark, lastResolve, reentry, atClear,
          policy, spliceLeft, hung, gapOwed, exited>>

\* the variables of the destination lookup, which the bridge's steps leave alone
\* the variables of the initialisation of the part_004 community variant
initVars == <<initAttempts, initTimers, initCalls, sock, adminTold, failsInRow, orphans,
              initEv>>

\* the variables of the client lifecycle of index.js:832-1276
clientVars == <<isInitializing, clients, whatsappClient, clientTimers, restarting>>

\* the variables of the management bot (management.js)
mgmtVars == <<currentGroupId, availableGroups, menuPc, loads, mclient, mtimer>>

\* the variables of MessageQueue (messageQueue.js)
queueVars == <<pqueue, running, started, added, intervalCount, cleared>>

\* the variables of the destination lookup alone
lookupVars == <<target, chats, resolved, selected, diag>>

\* the variables of the bridge other than isReady
bridgeRest == <<variant, handle, messageQueue, isProcessing, conn, reconnectTimer,
          readyPc, dpc, dcur, dtries, dbatch, dpend, kicks, flight, kind, arrived, log, enq,
          nfail, acked, disc, retryPending, retryMark, lastResolve, reentry, atClear,
          policy, spliceLeft, hung, gapOwed, exited>>

sideVars == <<target, chats, resolved, selected, diag, initVars, clientVars, mgmtVars,
              queueVars>>

vars == <<bridgeVars, sideVars, answer>>

Variants == {"idxA", "idxB", "idxC", "p002", "p003A", "p003B", "p004A", "p004B", "p005"}
NoHandle == "none"
NoAnswer == [via |-> "none", reports |-> FALSE, ready |-> FALSE, queue |-> 0]
Group == "grp"
DrainIds == 1..MaxDrains
ClientIds == 1..MaxClients

\* the number of posts a behaviour of the variant may receive
Cap ==
    CASE variant = "p004B" -> MaxJobsRetry
      [] variant = "p005" -> MaxJobsBatch
      [] OTHER -> MaxJobs

Jobs == 1..Cap

\* the number of downloads and sends that may fail in a behaviour; index.js:180-189
\* gives up on a job after RETRIES failed attempts
FailCap == IF variant = "idxA" THEN RETRIES ELSE MaxFails

\* ------------------------------------------------- what the variants differ in
\* part_005:276-309 and part_002:156-172 drain in batches (splice + Promise.all);
\* the others shift one job at a time.
Batched == variant \in {"p002", "p005"}

\* part_005:283 splice(0, CONCURRENT_MESSAGES); part_002:160 splice(0, 10)
BatchSize == IF variant = "p005" THEN CONCURRENT_MESSAGES ELSE BATCH_002

\* index.js:329, part_003:649, part_005:369-373: setInterval calls the drain function
HasPoll == variant \in {"idxA", "p003B", "p005"}

\* channel_post sends at once when the gate is open (index.js:706/1106,
\* part_003:266, part_004:288/1032); the other variants always enqueue
DirectPath == variant \in {"idxB", "idxC", "p003A", "p004A", "p004B"}

\* index.js:104, part_003:540, part_005:238: targetChat = chats.find(...), an object
\* (undefined when nothing matches) on which sendMessage is called
HandleIsObject == variant \in {"idxA", "p003B", "p005"}

\* part_003:207 is the only 'disconnected' handler that sets the handle to null
ClearsHandleOnDisconnect == variant = "p003A"

\* every 'disconnected' handler sets the readiness flag to false; the
\* connection.update 'close' branches (part_004:159-170, 767-783) do not
ResetsReadyOnDisconnect == variant \notin {"p004A", "p004B"}

\* index.js:321-326, part_004:1247-1253
HasClear == variant \in {"idxA", "p004B"}

\* the kinds of post a variant treats differently: index.js:256-263 marks a sticker
\* as not important; part_003:600-646 and part_005:312-341 enqueue a text for every
\* kind; the others download media (photo, video, document) before sending it
Kinds ==
    IF variant = "idxA" THEN {"text", "sticker"}
    ELSE IF variant \in {"p003B", "p005"} THEN {"text"}
    ELSE IF variant = "idxB" THEN {"text", "media", "doc"}
    ELSE {"text", "media"}

\* index.js:707-725: with the gate closed a photo, a video or a caption is pushed and
\* a document without a caption is not ("doc" is that post; "media" a photo or video)
QueuedWhenClosed(k) == ~(variant = "idxB" /\ k = "doc")

\* index.js:199 if (message.important)
Important(kd, j) == kd[j] # "sticker"

\* spec 4.1: isOpen() = ConnectionState == Ready AND DestinationHandle != null
GateOpen == isReady /\ handle # NoHandle

\* the condition of the drain loop's while, with h the handle's value:
\* part_004:238 and 958 test the handle, the others only the readiness flag
\* (index.js:175, 670, 1055, part_003:223, 578)
LoopCond(h) == isReady /\ (variant \in {"p004A", "p004B"} => h # NoHandle)

\* DrainGuard without the test on isProcessing (the fault C2 excludes)
DrainGuardNoReentry(ip, q, h) ==
    /\ Len(q) > 0
    /\ (variant = "p004A" \/ (isReady /\ h # NoHandle))

\* the first line of the drain function, with ip the value of isProcessing, q the
\* queue and h the handle:
\* if (isProcessing || queue.length === 0 || !isReady || !handle) return;
\* part_004:234 tests only isProcessing and the queue length
DrainGuard(ip, q, h) ==
    /\ ~ip
    /\ Len(q) > 0
    /\ (variant = "p004A" \/ (isReady /\ h # NoHandle))

Min(a, b) == IF a < b THEN a ELSE b

TotalFails == LET S[n \in 0..Cap] == IF n = 0 THEN 0 ELSE S[n - 1] + nfail[n] IN S[Cap]

\* the environment may let a download or a send fail while the bound allows it
Outcomes == IF TotalFails < FailCap THEN {TRUE, FALSE} ELSE {TRUE}

\* the record of a sendMessage call of job j on path via ("drain" or "direct") with
\* the handle h: open tells whether the gate was open at the call, late whether a
\* job reinserted at the head (rp, reinserted when rm posts had arrived) was still
\* waiting for its retry and j arrived after that reinsertion
Entry(j, via, h, rp, rm) ==
    [job |-> j, via |-> via, open |-> (isReady /\ h # NoHandle),
     late |-> (rp # 0 /\ j > rm)]

\* ------------------------------------------------------------ the drain function
\* The variables the drain function and its callers write, as one record; the
\* operators below compute the record after a piece of the function has run.
Cur ==
    [q |-> messageQueue, en |-> enq, lg |-> log, ip |-> isProcessing, pc |-> dpc,
     cur |-> dcur, tr |-> dtries, bat |-> dbatch, pend |-> dpend, rp |-> retryPending,
     rm |-> retryMark, kk |-> kicks, re |-> reentry, kd |-> kind, ac |-> atClear,
     pol |-> policy, sl |-> spliceLeft, hg |-> hung,
     go |-> gapOwed, ex |-> exited]

ApplyBridge(S) ==
    /\ ~exited
    /\ S.kk <= MaxKicks
    /\ messageQueue' = S.q
    /\ enq' = S.en
    /\ log' = S.lg
    /\ isProcessing' = S.ip
    /\ dpc' = S.pc
    /\ dcur' = S.cur
    /\ dtries' = S.tr
    /\ dbatch' = S.bat
    /\ dpend' = S.pend
    /\ retryPending' = S.rp
    /\ retryMark' = S.rm
    /\ kicks' = S.kk
    /\ reentry' = S.re
    /\ kind' = S.kd
    /\ atClear' = S.ac
    /\ policy' = S.pol
    /\ spliceLeft' = S.sl
    /\ hung' = S.hg
    /\ gapOwed' = S.go
    /\ exited' = S.ex
    /\ answer' = NoAnswer

Apply(S) == ApplyBridge(S) /\ UNCHANGED sideVars

\* Shift taking the job from the tail instead of the head (the fault C3 excludes)
ShiftLast(q) == [job |-> q[Len(q)], rest |-> SubSeq(q, 1, Len(q) - 1)]

\* messageQueue.shift()
Shift(q) == [job |-> Head(q), rest |-> Tail(q)]

\* messageQueue.push(job)
Push(S, j) == [S EXCEPT !.q = Append(@, j), !.en = Append(@, j)]

\* Requeue without the reinsertion (the fault C13 excludes)
RequeueDrop(S, j) == S

\* messageQueue.unshift(message): part_003:592, part_004:248, 991, index.js:200
Requeue(S, j) == [S EXCEPT !.q = <<j>> \o @, !.rp = j, !.rm = arrived]

\* setImmediate(processQueue) / setTimeout(processQueuedMessages, ms)
Schedule(S) == [S EXCEPT !.kk = @ + 1]

\* isProcessing = false at the end of the drain function
Exit(S, d) == [S EXCEPT !.ip = FALSE, !.pc[d] = "idle", !.cur[d] = 0, !.tr[d] = 0]

\* what follows the try/catch of one job: index.js:192 and 685 and part_003:587 always
\* await a delay; index.js:1072, part_003:236, part_004:251 and 996 only if the queue
\* is not empty, and otherwise test the loop condition at once (it fails: the queue is
\* empty)
AfterJob(S, d) ==
    IF variant \in {"idxA", "idxB", "p003B"} \/ Len(S.q) > 0
    THEN [S EXCEPT !.pc[d] = "delay", !.cur[d] = 0, !.tr[d] = 0]
    ELSE Exit(S, d)

\* the two things a catch block does with the job whose send finally failed
Reinsert(S, j) == [Requeue(S, j) EXCEPT !.pol = @ \cup {"requeued"}]
Drop(S) == [S EXCEPT !.pol = @ \cup {"dropped"}]

\* Failed giving up at the first failure (the fault C30 excludes)
FailedNoRetry(S, d, j, tries) ==
    AfterJob(IF Important(S.kd, j) THEN Reinsert(S, j) ELSE Drop(S), d)

\* the catch block of the loop for job j, tries being the attempts left before this
\* failure: index.js:186-204 retries, then reinserts an important job; part_003:589-594
\* and part_004:246-249 reinsert and break; part_004:989-992 reinserts and goes on after
\* a delay; index.js:681-683, 1067-1069 and part_003:228-233 log and go on
Failed(S, d, j, tries) ==
    CASE variant = "idxA" ->
            IF tries > 1
            THEN [S EXCEPT !.pc[d] = "retrywait", !.cur[d] = j, !.tr[d] = tries - 1]
            ELSE AfterJob(IF Important(S.kd, j) THEN Reinsert(S, j) ELSE Drop(S), d)
      [] variant \in {"p003B", "p004A"} -> Exit(Reinsert(S, j), d)
      [] variant = "p004B" -> AfterJob(Reinsert(S, j), d)
      [] OTHER -> AfterJob(Drop(S), d)

\* one attempt to send job j with handle h from the loop.  targetChat.sendMessage
\* throws at once when targetChat is undefined; index.js:1061-1065 sends nothing for
\* a queued media job (it has no media field); part_004:964-983 downloads the file of
\* a queued media job first
Attempt(S, d, j, tries, h) ==
    IF HandleIsObject /\ h = NoHandle THEN Failed(S, d, j, tries)
    ELSE IF variant = "idxC" /\ S.kd[j] = "media" THEN AfterJob(S, d)
    ELSE IF variant = "p004B" /\ S.kd[j] = "media"
         THEN [S EXCEPT !.pc[d] = "dl", !.cur[d] = j, !.tr[d] = tries]
    ELSE [S EXCEPT !.lg = Append(@, Entry(j, "drain", h, S.rp, S.rm)),
                   !.pc[d] = "send", !.cur[d] = j, !.tr[d] = tries]

\* the test of the while loop and, if it holds, the shift and the first attempt
Iterate(S, d, h) ==
    IF Len(S.q) > 0 /\ LoopCond(h)
    THEN LET j == Shift(S.q).job
             S1 == [S EXCEPT !.q = Shift(S.q).rest, !.rp = IF @ = j THEN 0 ELSE @]
         IN  Attempt(S1, d, j, IF variant = "idxA" THEN RETRIES ELSE 1, h)
    ELSE Exit(S, d)

\* the sendMessage calls of a batch, in the order of the batch
RECURSIVE Entries(_, _, _, _)
Entries(b, h, rp, rm) ==
    IF b = <<>> THEN <<>>
    ELSE <<Entry(Head(b), "drain", h, rp, rm)>> \o Entries(Tail(b), h, rp, rm)

Range(f) == {f[i] : i \in DOMAIN f}

\* StartBatch taking the batch from the tail of the queue (the fault C17 excludes)
StartBatchTail(S, d, h) ==
    LET n == Min(BatchSize, Len(S.q))
        b == SubSeq(S.q, Len(S.q) - n + 1, Len(S.q))
    IN  [S EXCEPT !.q = SubSeq(S.q, 1, Len(S.q) - n),
                  !.rp = IF @ \in Range(b) THEN 0 ELSE @,
                  !.lg = @ \o Entries(b, h, 0, 0),
                  !.sl = Len(S.q) - n, !.go = FALSE,
                  !.pc[d] = "batch", !.bat[d] = Range(b), !.pend[d] = Range(b)]

\* StartBatch taking the whole queue as one batch (the fault C18 excludes)
StartBatchWhole(S, d, h) ==
    [S EXCEPT !.q = <<>>,
              !.rp = 0,
              !.lg = @ \o Entries(S.q, h, 0, 0),
              !.sl = 0, !.go = FALSE,
              !.pc[d] = "batch", !.bat[d] = Range(S.q), !.pend[d] = Range(S.q)]

\* part_005:283-295, part_002:160-168: splice the batch off the head and start the
\* send of every job of it (the map callbacks run up to their first await)
StartBatch(S, d, h) ==
    LET n == Min(BatchSize, Len(S.q))
        b == SubSeq(S.q, 1, n)
    IN  [S EXCEPT !.q = SubSeq(S.q, n + 1, Len(S.q)),
                  !.rp = IF @ \in Range(b) THEN 0 ELSE @,
                  !.lg = @ \o Entries(b, h, 0, 0),
                  !.sl = Len(S.q) - n, !.go = FALSE,
                  !.pc[d] = "batch", !.bat[d] = Range(b), !.pend[d] = Range(b)]

\* part_005:304-308, part_002:170-171
FinishBatch(S, d) ==
    LET S1 == [S EXCEPT !.ip = FALSE, !.pc[d] = "idle"]
    IN  IF Len(S.q) > 0 THEN Schedule(S1) ELSE S1

FreeSlots(S) == {d \in DrainIds : S.pc[d] = "idle"}

\* a call of the drain function with handle h
DrainCall(S, h) ==
    IF DrainGuard(S.ip, S.q, h) /\ FreeSlots(S) # {}
    THEN LET d == CHOOSE x \in FreeSlots(S) : \A y \in FreeSlots(S) : x <= y
             S1 == [S EXCEPT !.ip = TRUE]
         IN  IF Batched THEN StartBatch(S1, d, h) ELSE Iterate(S1, d, h)
    ELSE [S EXCEPT !.re = @ \/ (S.ip /\ Len(S.q) > 0)]

\* ------------------------------------------------------------------ initial state
NoDiag == [shown |-> FALSE, target |-> <<>>, listed |-> FALSE, names |-> <<>>]

\* part_004:578-585 the declarations, before startBot
InitIdle ==
    /\ initAttempts = 0
    /\ initTimers = 0
    /\ initCalls = [fresh |-> 0, stale |-> 0]
    /\ sock = "none"
    /\ adminTold = FALSE
    /\ failsInRow = 0
    /\ orphans = 0
    /\ initEv = "none"

\* index.js:872, 878 the declarations, before any call of initWhatsApp
ClientIdle ==
    /\ isInitializing = FALSE
    /\ clients = [c \in ClientIds |-> "none"]
    /\ whatsappClient = 0
    /\ clientTimers = 0
    /\ restarting = 0

\* management.js:12-15 the declarations, and the client made by initWhatsApp at the
\* start (management.js:482)
MgmtIdle ==
    /\ currentGroupId = 0
    /\ availableGroups = <<>>
    /\ menuPc = "idle"
    /\ loads = 0
    /\ mclient = "initialising"
    /\ mtimer = FALSE

\* messageQueue.js:4-10 the constructor
QueueIdle ==
    /\ pqueue = <<>>
    /\ running = {}
    /\ started = <<>>
    /\ added = 0
    /\ intervalCount = 0
    /\ cleared = 0

\* no lookup with a concrete listing has run
SideIdle ==
    /\ target = <<>>
    /\ chats = <<>>
    /\ resolved = -1
    /\ selected = -1
    /\ diag = NoDiag
    /\ InitIdle
    /\ ClientIdle
    /\ MgmtIdle
    /\ QueueIdle

\* the module-level declarations (index.js:17-24, 430-436, 851-858, part_002:20-24,
\* part_003:21-25, 463-469, part_004:20-25, 553-562, part_005:20-26) and the call of
\* initWhatsApp / initializeWhatsApp at start-up
InitBridge ==
    /\ variant \in Variants
    /\ isReady = FALSE
    /\ handle = NoHandle
    /\ messageQueue = <<>>
    /\ isProcessing = FALSE
    /\ conn = "init"
    /\ reconnectTimer = FALSE
    /\ readyPc = "idle"
    /\ dpc = [d \in DrainIds |-> "idle"]
    /\ dcur = [d \in DrainIds |-> 0]
    /\ dtries = [d \in DrainIds |-> 0]
    /\ dbatch = [d \in DrainIds |-> {}]
    /\ dpend = [d \in DrainIds |-> {}]
    /\ kicks = 0
    /\ flight = [j \in Jobs |-> "none"]
    /\ kind = [j \in Jobs |-> "none"]
    /\ arrived = 0
    /\ log = <<>>
    /\ enq = <<>>
    /\ nfail = [j \in Jobs |-> 0]
    /\ acked = {}
    /\ disc = 0
    /\ retryPending = 0
    /\ retryMark = 0
    /\ lastResolve = "none"
    /\ reentry = FALSE
    /\ atClear = [j \in Jobs |-> "none"]
    /\ policy = {}
    /\ spliceLeft = 0
    /\ hung = {}
    /\ gapOwed = FALSE
    /\ exited = FALSE
    /\ answer = NoAnswer

Init == InitBridge /\ SideIdle

\* ------------------------------------------------------------ connection lifecycle
\* the start of the 'ready' handler / the 'open' branch of connection.update, up to
\* its await on the chat listing: index.js:99-102, 601-606, 958-964, part_002:122-126,
\* part_003:166-171, 534-539, part_004:172-176, 784-791, part_005:230-237
\* part_005:235 awaits sessionManager.uploadSession() before the chat listing;
\* part_002:139 awaits uploadSessionToMega() after the lookup
UploadsBeforeLookup == variant = "p005"
UploadsAfterLookup == variant = "p002"

ClientReady ==
    /\ ~exited
    /\ conn = "init"
    /\ readyPc = "idle"
    /\ conn' = "up"
    /\ isReady' = TRUE
    /\ readyPc' = IF UploadsBeforeLookup THEN "upload" ELSE "chats"
    /\ lastResolve' = "none"
    /\ UNCHANGED <<variant, handle, messageQueue, isProcessing, reconnectTimer, dpc,
                   dcur, dtries, dbatch, dpend, kicks, flight, kind, arrived, log, enq,
                   nfail, acked, disc, retryPending, retryMark, reentry, atClear, policy,
                   spliceLeft, hung,
                   gapOwed, exited, sideVars>>
    /\ answer' = NoAnswer

\* the handle after the chat listing came back with outcome r: targetChat is
\* assigned the result of find (undefined when nothing matches, index.js:104,
\* part_003:540, part_005:238); the id variables are assigned only on a match
\* (index.js:611, 1016, part_002:132, part_003:176, part_004:203, 868/900)
Resolved(r) ==
    CASE r = "found" -> Group
      [] r = "notfound" /\ HandleIsObject -> NoHandle
      [] OTHER -> handle

\* what the 'ready' handler does once the lookup (outcome r, handle h) and the admin
\* notification are over: index.js:624 (idxB, match only) calls the drain function;
\* index.js:967-970 (idxC) and part_004:179 (p004A) call it whatever the lookup
\* gave; part_004:923-925 calls it on a match and 794-797 then schedules it if the
\* queue is not empty; the other handlers do nothing more
AfterLookup(S, r, h) ==
    CASE variant = "idxB" /\ r = "found" -> DrainCall(S, h)
      [] variant \in {"idxC", "p004A"} -> DrainCall(S, h)
      [] variant = "p004B" ->
            LET S1 == IF r = "found" THEN DrainCall(S, h) ELSE S
            IN  IF Len(S1.q) > 0 THEN Schedule(S1) ELSE S1
      [] OTHER -> S

\* the handler awaits the admin notification before going on: index.js:615-621,
\* 628-637, 1020-1029, 1038-1042, part_004:206-216, 224-228, 888-896, 903-911, 934-941
AwaitsNotify(r) ==
    \/ variant = "idxB" /\ r = "found"
    \/ variant \in {"idxC", "p004A", "p004B"} /\ r # "error"

\* the rest of the 'ready' handler after the chat listing: the listing resolves
\* while the client is connected and rejects after a disconnect.
\* index.js:103-125 (idxA), 607-643 (idxB), 1008-1047 (idxC), part_002:126-139,
\* part_003:172-196 and 540-554, part_004:193-231 and 835-948, part_005:237-252.
\* part_003:186 calls the drain function without awaiting the notification.
ResolveChats(r) ==
    /\ readyPc = "chats"
    /\ IF conn = "up" THEN r \in {"found", "notfound"} ELSE r = "error"
    /\ handle' = Resolved(r)
    /\ lastResolve' = r
    /\ IF AwaitsNotify(r)
       THEN /\ Apply(Cur)
            /\ readyPc' = "notify"
       ELSE /\ Apply(IF variant = "p003A" /\ r = "found" THEN DrainCall(Cur, Group)
                     ELSE AfterLookup(Cur, r, Resolved(r)))
            /\ readyPc' = IF UploadsAfterLookup /\ r # "error" THEN "upload" ELSE "idle"
    /\ UNCHANGED <<variant, isReady, conn, reconnectTimer, flight, arrived, nfail,
                   acked, disc>>

\* the outcomes of a session backup: it succeeds ("ok"), it fails inside the
\* function's try block or reports failure ("caught": part_005:108-155 returns
\* false, part_002:67-94 logs), or, in part_002:75-86, it fails inside the async
\* 'close' callback of the archive's output stream, which no try block covers
\* ("uncaught")
UploadOutcomes ==
    IF variant = "p002" THEN {"ok", "caught", "uncaught"} ELSE {"ok", "caught"}

\* the session backup awaited by the 'ready' handler has settled with outcome r.
\* An "uncaught" failure is a rejected promise nobody handles: part_002 registers no
\* 'unhandledRejection' handler, and the runtime of the image (Dockerfile:2, Node 18)
\* then terminates the process. The step stands for the handler's await and for the
\* 'close' callback that follows it.
UploadDone(r) ==
    /\ readyPc = "upload"
    /\ r \in UploadOutcomes
    /\ readyPc' = IF UploadsBeforeLookup THEN "chats" ELSE "idle"
    /\ Apply([Cur EXCEPT !.ex = (r = "uncaught")])
    /\ UNCHANGED <<variant, isReady, handle, conn, reconnectTimer, flight, arrived,
                   nfail, acked, disc, lastResolve>>

\* the 'ready' handler after its await on the admin notification
ReadyNotified ==
    /\ readyPc = "notify"
    /\ readyPc' = "idle"
    /\ Apply(AfterLookup(Cur, lastResolve, handle))
    /\ UNCHANGED <<variant, isReady, handle, conn, reconnectTimer, flight, arrived,
                   nfail, acked, disc, lastResolve>>

\* every 'disconnected' handler ends with setTimeout(initWhatsApp, ...); the 'close'
\* branches of part_004:159-170 and 767-783 do so only if the status code is not
\* DisconnectReason.loggedOut, and otherwise only notify the admin
SchedulesReconnect(loggedOut) == ~(loggedOut /\ variant \in {"p004A", "p004B"})

\* the 'disconnected' handler / the 'close' branch: index.js:134-151, 653-660,
\* 985-995, part_002:146-151, part_003:204-213, 558-564, part_004:159-170, 767-783,
\* part_005:256-264
Disconnect(loggedOut) ==
    /\ ~exited
    /\ conn = "up"
    /\ disc < MaxDisc
    /\ conn' = "down"
    /\ disc' = disc + 1
    /\ isReady' = IF ResetsReadyOnDisconnect THEN FALSE ELSE isReady
    /\ handle' = IF ClearsHandleOnDisconnect THEN NoHandle ELSE handle
    /\ reconnectTimer' = SchedulesReconnect(loggedOut)
    /\ UNCHANGED <<variant, messageQueue, isProcessing, readyPc, dpc, dcur, dtries,
                   dbatch, dpend, kicks, flight, kind, arrived, log, enq, nfail, acked,
                   retryPending, retryMark, lastResolve, reentry, atClear,
                   policy, spliceLeft, hung,
                   gapOwed, exited, sideVars>>
    /\ answer' = NoAnswer

\* the programs built on whatsapp-web.js, whose client emits 'auth_failure'
EmitsAuthFailure == variant \notin {"p004A", "p004B"}

\* the 'auth_failure' handler that resets the readiness flag and schedules
\* initWhatsApp after 10 s: index.js:973-983; the handlers at index.js:129-131,
\* 646-651 and part_003:199-202 only report, and part_002, part_003:447-683 and
\* part_005 register none
RetriesOnAuthFailure == variant = "idxC"

\* the client being initialised fails to authenticate and emits 'auth_failure';
\* it will not become ready
AuthFailure ==
    /\ ~exited
    /\ EmitsAuthFailure
    /\ conn = "init"
    /\ conn' = "failed"
    /\ isReady' = IF RetriesOnAuthFailure THEN FALSE ELSE isReady
    /\ reconnectTimer' = IF RetriesOnAuthFailure THEN TRUE ELSE reconnectTimer
    /\ UNCHANGED <<variant, handle, messageQueue, isProcessing, readyPc, dpc, dcur,
                   dtries, dbatch, dpend, kicks, flight, kind, arrived, log, enq, nfail,
                   acked, disc, retryPending, retryMark, lastResolve, reentry,
                   atClear, policy, spliceLeft, hung,
                   gapOwed, exited, sideVars>>
    /\ answer' = NoAnswer

\* the reconnect timer fires and the client is initialised again; part_004:684 sets
\* isReady = false at the start of initializeWhatsApp
ReconnectFires ==
    /\ ~exited
    /\ reconnectTimer
    /\ reconnectTimer' = FALSE
    /\ conn' = "init"
    /\ isReady' = IF variant = "p004B" THEN FALSE ELSE isReady
    /\ UNCHANGED <<variant, handle, messageQueue, isProcessing, readyPc, dpc, dcur,
                   dtries, dbatch, dpend, kicks, flight, kind, arrived, log, enq, nfail,
                   acked, disc, retryPending, retryMark, lastResolve, reentry,
                   atClear, policy, spliceLeft, hung,
                   gapOwed, exited, sideVars>>
    /\ answer' = NoAnswer

\* -------------------------------------------------------------- inbound posts
\* a send on the direct path of channel_post, with the handle as it is now
DirectSend(S, j) ==
    [S EXCEPT !.lg = Append(@, Entry(j, "direct", handle, S.rp, S.rm))]

\* the channel_post handler up to its first await, for a post of kind k:
\* index.js:212-290 and part_003:600-646 push and call the drain function;
\* part_005:312-341 pushes and schedules it; part_002:174-213 downloads media before
\* the push; index.js:700-758, 1099-1156, part_003:259-333, part_004:282-340 and
\* 1024-1122 push when the gate is closed and otherwise send (text) or download (media)
ChannelPost(k) ==
    /\ arrived < Cap
    /\ k \in Kinds
    /\ arrived' = arrived + 1
    /\ LET j == arrived + 1
           S0 == [Cur EXCEPT !.kd[j] = k]
       IN  CASE variant \in {"idxA", "p003B"} ->
                    /\ Apply(DrainCall(Push(S0, j), handle))
                    /\ UNCHANGED flight
             [] variant = "p005" ->
                    /\ Apply(Schedule(Push(S0, j)))
                    /\ UNCHANGED flight
             [] variant = "p002" /\ k = "text" ->
                    /\ Apply(DrainCall(Push(S0, j), handle))
                    /\ UNCHANGED flight
             [] DirectPath /\ ~GateOpen ->
                    /\ Apply(IF QueuedWhenClosed(k) THEN Push(S0, j) ELSE S0)
                    /\ UNCHANGED flight
             [] DirectPath /\ GateOpen /\ k = "text" ->
                    /\ Apply(DirectSend(S0, j))
                    /\ flight' = [flight EXCEPT ![j] = "send"]
             [] OTHER ->
                    /\ Apply(S0)
                    /\ flight' = [flight EXCEPT ![j] = "dl"]
    /\ UNCHANGED <<variant, isReady, handle, conn, reconnectTimer, readyPc, nfail,
                   acked, disc, lastResolve>>

\* the download of the media of post j is over (ok: with the file):
\* part_002:180-203 pushes and calls the drain function, and queues nothing on an
\* error; index.js:729-746 and 1129-1147 send without testing the gate again and drop
\* the post on an error; part_003:279-286 tests the gate again and pushes if it is
\* closed; part_004:297-318 and 1051-1104 send, and push on an error
DownloadDone(j, ok) ==
    /\ flight[j] = "dl"
    /\ ok \in Outcomes
    /\ nfail' = IF ok THEN nfail ELSE [nfail EXCEPT ![j] = @ + 1]
    /\ IF ok
       THEN CASE variant = "p002" ->
                    /\ Apply(DrainCall(Push(Cur, j), handle))
                    /\ flight' = [flight EXCEPT ![j] = "none"]
              [] variant = "p003A" /\ ~GateOpen ->
                    /\ Apply(Push(Cur, j))
                    /\ flight' = [flight EXCEPT ![j] = "none"]
              [] OTHER ->
                    /\ Apply(DirectSend(Cur, j))
                    /\ flight' = [flight EXCEPT ![j] = "send"]
       ELSE /\ Apply(IF variant \in {"p004A", "p004B"} THEN Push(Cur, j) ELSE Cur)
            /\ flight' = [flight EXCEPT ![j] = "none"]
    /\ UNCHANGED <<variant, isReady, handle, conn, reconnectTimer, readyPc, arrived,
                   acked, disc, lastResolve>>

\* the send of post j on the direct path has settled: index.js:754-756, 1152-1154 and
\* part_003:287-289, 329-331 log a failure; part_004:333-339 and 1059-1067 push the
\* post; part_004:1112-1121 (text) pushes it and schedules the drain function
DirectSendDone(j, ok) ==
    /\ flight[j] = "send"
    /\ ok \in Outcomes
    /\ flight' = [flight EXCEPT ![j] = "none"]
    /\ acked' = IF ok THEN acked \cup {j} ELSE acked
    /\ nfail' = IF ok THEN nfail ELSE [nfail EXCEPT ![j] = @ + 1]
    /\ Apply(CASE ~ok /\ variant = "p004A" -> Push(Cur, j)
               [] ~ok /\ variant = "p004B" /\ kind[j] = "media" -> Push(Cur, j)
               [] ~ok /\ variant = "p004B" /\ kind[j] = "text" -> Schedule(Push(Cur, j))
               [] OTHER -> Cur)
    /\ UNCHANGED <<variant, isReady, handle, conn, reconnectTimer, readyPc, arrived,
                   disc, lastResolve>>

\* ------------------------------------------------------- the drain loop's steps
HandlerVars == <<variant, isReady, handle, conn, reconnectTimer, readyPc, flight,
                 arrived, disc, lastResolve>>

\* the catch block that reads a property of error.message: part_003:230
\* error.message.includes('not found'); the other catch blocks pass the error or its
\* message to console.error (index.js:196, 682, 1068, part_003:590, part_004:247, 990)
DereferencesMessage == variant = "p003A"

\* the sendMessage call of activation d has rejected with a value that has no
\* message field. Where the catch block only logs, this is a failed send like any
\* other. In part_003:228-233 error.message.includes throws a TypeError inside the
\* catch block: processQueue rejects with isProcessing still set and the job
\* dropped; its caller does not await it (part_003:186), part_003
\* registers no 'unhandledRejection' handler, and the runtime of the image
\* (Dockerfile:2, Node 18) then terminates the process.
SendDoneBare(d) ==
    /\ dpc[d] = "send"
    /\ dcur[d] \notin hung
    /\ FALSE \in Outcomes
    /\ acked' = acked
    /\ nfail' = [nfail EXCEPT ![dcur[d]] = @ + 1]
    /\ Apply(IF DereferencesMessage
             THEN [Drop(Cur) EXCEPT !.pc[d] = "idle", !.cur[d] = 0, !.tr[d] = 0,
                                    !.ex = TRUE]
             ELSE Failed(Cur, d, dcur[d], dtries[d]))
    /\ UNCHANGED HandlerVars

\* the sendMessage call of activation d has settled
SendDone(d, ok) ==
    /\ dpc[d] = "send"
    /\ dcur[d] \notin hung
    /\ ok \in Outcomes
    /\ acked' = IF ok THEN acked \cup {dcur[d]} ELSE acked
    /\ nfail' = IF ok THEN nfail ELSE [nfail EXCEPT ![dcur[d]] = @ + 1]
    /\ Apply(IF ok THEN AfterJob(Cur, d) ELSE Failed(Cur, d, dcur[d], dtries[d]))
    /\ UNCHANGED HandlerVars

\* part_004:964-983: the download of a queued media job is over; the send is called
\* with the handle as it is now
DrainDownloadDone(d, ok) ==
    /\ dpc[d] = "dl"
    /\ ok \in Outcomes
    /\ nfail' = IF ok THEN nfail ELSE [nfail EXCEPT ![dcur[d]] = @ + 1]
    /\ Apply(IF ok
             THEN [Cur EXCEPT !.lg = Append(@, Entry(dcur[d], "drain", handle,
                                                     retryPending, retryMark)),
                              !.pc[d] = "send"]
             ELSE Failed(Cur, d, dcur[d], dtries[d]))
    /\ UNCHANGED <<HandlerVars, acked>>

\* index.js:188: the pause between two attempts is over, the send is tried again
RetryDelayDone(d) ==
    /\ dpc[d] = "retrywait"
    /\ Apply(Attempt(Cur, d, dcur[d], dtries[d], handle))
    /\ UNCHANGED <<HandlerVars, acked, nfail>>

\* the delay after a job is over: the loop condition is tested again
DelayDone(d) ==
    /\ dpc[d] = "delay"
    /\ Apply(Iterate(Cur, d, handle))
    /\ UNCHANGED <<HandlerVars, acked, nfail>>

\* Settled as it would be without the try/catch around each send: the first failure
\* rejects Promise.all and ends the wait for the whole batch (the fault C5 excludes)
SettledAbort(pend, j, ok) == IF ok THEN pend \ {j} ELSE {}

\* part_005:287-294, part_002:162-168: each send of a batch has its own try/catch, so
\* Promise.all waits for every job of the batch; pend is the set of unsettled jobs
Settled(pend, j, ok) == pend \ {j}

\* the send of job j of the batch of activation d has settled; after the last one
\* part_005:297-299 awaits a delay if the queue is not empty
BatchSettle(d, j, ok) ==
    /\ dpc[d] = "batch"
    /\ j \in dpend[d]
    /\ j \notin hung
    /\ ok \in Outcomes
    /\ acked' = IF ok THEN acked \cup {j} ELSE acked
    /\ nfail' = IF ok THEN nfail ELSE [nfail EXCEPT ![j] = @ + 1]
    /\ LET S0 == IF ok THEN Cur ELSE Drop(Cur)
           S1 == [S0 EXCEPT !.pend[d] = Settled(@, j, ok)]
           S2 == [S1 EXCEPT !.go = Len(S1.q) > 0 /\ GateOpen]
       IN  Apply(IF S1.pend[d] # {} THEN S1
                 ELSE IF variant = "p005" /\ Len(S1.q) > 0
                      THEN [S2 EXCEPT !.pc[d] = "gap"]
                      ELSE FinishBatch(S2, d))
    /\ UNCHANGED HandlerVars

\* the jobs whose sendMessage call of the drain function is pending
SendPending ==
    {dcur[d] : d \in {e \in DrainIds : dpc[e] = "send"}}
        \cup UNION {dpend[d] : d \in {e \in DrainIds : dpc[e] = "batch"}}

\* the promise of the pending sendMessage call of job j never settles: no send of the
\* drain functions is given a timeout (part_005:289, index.js:673-677 await it as it is)
Hang(j) ==
    /\ Cardinality(hung) < MaxHung
    /\ j \in SendPending \ hung
    /\ Apply([Cur EXCEPT !.hg = @ \cup {j}])
    /\ UNCHANGED <<HandlerVars, acked, nfail>>

\* part_005:298: the delay between two batches is over
GapDone(d) ==
    /\ dpc[d] = "gap"
    /\ Apply(FinishBatch([Cur EXCEPT !.go = FALSE], d))
    /\ UNCHANGED <<HandlerVars, acked, nfail>>

\* a scheduled call of the drain function runs (setImmediate: part_005:307, 335,
\* part_002:171; setTimeout: part_004:796, 1120)
KickFires ==
    /\ kicks > 0
    /\ Apply(DrainCall([Cur EXCEPT !.kk = @ - 1], handle))
    /\ UNCHANGED <<HandlerVars, acked, nfail>>

\* the periodic poll: index.js:329 and part_003:649 call the drain function;
\* part_005:369-373 calls it if isProcessing is false and the queue is not empty
PollTick ==
    /\ HasPoll
    /\ variant = "p005" => ~isProcessing /\ Len(messageQueue) > 0
    /\ Apply(DrainCall(Cur, handle))
    /\ UNCHANGED <<HandlerVars, acked, nfail>>

\* the jobs an activation of the drain function has dequeued and not finished with
InDrain ==
    {dcur[d] : d \in {e \in DrainIds : dcur[e] # 0}} \cup UNION {dpend[d] : d \in DrainIds}

InQueue(j) == Cardinality({i \in DOMAIN messageQueue : messageQueue[i] = j})

\* the admin's clear command: index.js:321-326, part_004:1247-1253
Clear ==
    /\ HasClear
    /\ Apply([Cur EXCEPT !.q = <<>>, !.rp = 0,
                         !.ac = [j \in Jobs |-> IF j \in InDrain THEN "inflight"
                                                ELSE IF InQueue(j) > 0 THEN "queued"
                                                ELSE @[j]]])
    /\ UNCHANGED <<HandlerVars, acked, nfail>>

Next ==
    \/ ClientReady
    \/ \E r \in {"found", "notfound", "error"} : ResolveChats(r)
    \/ ReadyNotified
    \/ \E r \in {"ok", "caught", "uncaught"} : UploadDone(r)
    \/ \E loggedOut \in BOOLEAN : Disconnect(loggedOut)
    \/ AuthFailure
    \/ ReconnectFires
    \/ \E k \in {"text", "media", "doc", "sticker"} : ChannelPost(k)
    \/ \E j \in Jobs, ok \in BOOLEAN : DownloadDone(j, ok)
    \/ \E j \in Jobs, ok \in BOOLEAN : DirectSendDone(j, ok)
    \/ \E d \in DrainIds, ok \in BOOLEAN : SendDone(d, ok)
    \/ \E d \in DrainIds : SendDoneBare(d)
    \/ \E d \in DrainIds, ok \in BOOLEAN : DrainDownloadDone(d, ok)
    \/ \E d \in DrainIds : RetryDelayDone(d)
    \/ \E d \in DrainIds : DelayDone(d)
    \/ \E d \in DrainIds, j \in Jobs, ok \in BOOLEAN : BatchSettle(d, j, ok)
    \/ \E d \in DrainIds : GapDone(d)
    \/ \E j \in Jobs : Hang(j)
    \/ KickFires
    \/ PollTick
    \/ Clear

Spec == Init /\ [][Next]_vars

\* ------------------------------------------------------------ operator queries
\* GET /health: index.js:30-38, part_003:476-484 and part_005:41-49 answer with
\* whatsappReady and queueSize; index.js:447-449, 862-864, part_003:382-384,
\* part_004:12 and 543 answer 'OK'; part_002 has no such route
HasHealth == variant # "p002"
HealthReports == variant \in {"idxA", "p003B", "p005"}

\* the status command: index.js:293-307, 760-770, 1159-1175, part_002:215-225,
\* part_003:335-351, part_004:343-360, 1142-1158, part_005:344-358;
\* part_003:447-683 has none
HasStatus == variant # "p003B"

Health ==
    /\ ~exited
    /\ HasHealth
    /\ answer' = IF HealthReports
                 THEN [via |-> "health", reports |-> TRUE, ready |-> isReady,
                       queue |-> Len(messageQueue)]
                 ELSE [NoAnswer EXCEPT !.via = "health"]
    /\ UNCHANGED <<bridgeVars, sideVars>>

\* a status command whose reply counts every job ever queued (the fault C28 excludes)
StatusOfEnqueued ==
    /\ ~exited
    /\ HasStatus
    /\ answer' = [via |-> "status", reports |-> TRUE, ready |-> isReady,
                  queue |-> Len(enq)]
    /\ UNCHANGED <<bridgeVars, sideVars>>

\* the status command, sent by the admin
Status ==
    /\ ~exited
    /\ HasStatus
    /\ answer' = [via |-> "status", reports |-> TRUE, ready |-> isReady,
                  queue |-> Len(messageQueue)]
    /\ UNCHANGED <<bridgeVars, sideVars>>

\* the steps of the programs of StatusVariants, and the two queries
NextStatus ==
    \/ ClientReady
    \/ \E r \in {"found", "notfound", "error"} : ResolveChats(r)
    \/ ReadyNotified
    \/ \E loggedOut \in BOOLEAN : Disconnect(loggedOut)
    \/ AuthFailure
    \/ ReconnectFires
    \/ \E k \in {"text", "media", "doc", "sticker"} : ChannelPost(k)
    \/ \E j \in Jobs, ok \in BOOLEAN : DownloadDone(j, ok)
    \/ \E j \in Jobs, ok \in BOOLEAN : DirectSendDone(j, ok)
    \/ \E d \in DrainIds, ok \in BOOLEAN : SendDone(d, ok)
    \/ \E d \in DrainIds : SendDoneBare(d)
    \/ \E d \in DrainIds : RetryDelayDone(d)
    \/ \E d \in DrainIds : DelayDone(d)
    \/ \E j \in Jobs : Hang(j)
    \/ PollTick
    \/ Clear
    \/ Health
    \/ Status

\* the programs the queries are explored in: index.js:1-412 and part_003:447-683,
\* whose health endpoint reports, and index.js:832-1276, whose endpoint answers 'OK'
StatusVariants == {"idxA", "idxC", "p003B"}
InitStatus == Init /\ variant \in StatusVariants

SpecStatus == InitStatus /\ [][NextStatus]_vars

\* --------------------------------------------------------- destination lookup
\* The lookup of the 'ready' handlers and selectGroupByName of the management bot,
\* run on a concrete listing and a concrete configured name (the bridge's steps above
\* only use its outcome).  Names are short sequences over three letters, two of which
\* differ only in case.  part_004:835-948 (the community and its announcement group)
\* is left out.
Letters == {"a", "A", "b"}
Names == UNION {[1..n -> Letters] : n \in 1..MaxNameLen}
Listings == UNION {[1..n -> [name : Names, isGroup : BOOLEAN]] : n \in 0..MaxChats}

\* String.prototype.toLowerCase
ToLowerCase(s) == [i \in DOMAIN s |-> IF s[i] = "A" THEN "a" ELSE s[i]]

\* String.prototype.includes
Includes(s, t) == \E i \in 1..(Len(s) - Len(t) + 1) : SubSeq(s, i, i + Len(t) - 1) = t

\* the predicate given to chats.find: index.js:104, part_003:540 and part_005:238
\* compare with ===; index.js:607-609 and 1011-1013 compare the lower-cased names of
\* groups; part_002:127-129, part_003:172-174 and part_004:198-200 test whether the
\* lower-cased name of a group includes the lower-cased configured name
IsTarget(c) ==
    CASE variant \in {"idxA", "p003B", "p005"} -> c.name = target
      [] variant \in {"idxB", "idxC"} ->
            c.isGroup /\ ToLowerCase(c.name) = ToLowerCase(target)
      [] OTHER -> c.isGroup /\ Includes(ToLowerCase(c.name), ToLowerCase(target))

\* management.js:126-133, 142-144: availableGroups holds the groups only
IsSelected(c) == c.isGroup /\ Includes(ToLowerCase(c.name), ToLowerCase(target))

\* Array.prototype.find, as the index of the first element among hits, the indices
\* of the elements that satisfy the predicate (0: undefined)
Find(hits) ==
    IF hits = {} THEN 0 ELSE CHOOSE i \in hits : \A k \in hits : i <= k

IsGroup(c) == c.isGroup
NamesOf(cs) == [i \in DOMAIN cs |-> cs[i].name]

\* .slice(0, 10)
Slice(s) == SubSeq(s, 1, Min(LIST_MAX, Len(s)))

\* what the else branch of the 'ready' handler reports: index.js:119-125 logs the
\* configured name and every chat's name; index.js:626-640, 1027-1042 and
\* part_004:217-228 send the configured name and the first ten group names;
\* part_003:189-193 sends the configured name and every group name; part_002:136,
\* part_003:552 and part_005:252 report the configured name only
Diagnostic ==
    CASE variant = "idxA" ->
            [shown |-> TRUE, target |-> target, listed |-> TRUE, names |-> NamesOf(chats)]
      [] variant \in {"idxB", "idxC", "p004A"} ->
            [shown |-> TRUE, target |-> target, listed |-> TRUE,
             names |-> Slice(NamesOf(SelectSeq(chats, IsGroup)))]
      [] variant = "p003A" ->
            [shown |-> TRUE, target |-> target, listed |-> TRUE,
             names |-> NamesOf(SelectSeq(chats, IsGroup))]
      [] OTHER -> [shown |-> TRUE, target |-> target, listed |-> FALSE, names |-> <<>>]

\* the first 'ready' of a bridge whose transport lists chats and whose configured
\* name is target
InitResolve ==
    /\ InitBridge
    /\ variant # "p004B"
    /\ target \in Names
    /\ chats \in Listings
    /\ resolved = -1
    /\ selected = -1
    /\ diag = NoDiag
    /\ InitIdle
    /\ ClientIdle
    /\ MgmtIdle
    /\ QueueIdle

\* the 'ready' handler from its start to the end of the lookup, on the listing chats
FindTarget ==
    /\ resolved = -1
    /\ LET i == Find({k \in DOMAIN chats : IsTarget(chats[k])})
       IN  /\ resolved' = i
           /\ handle' = Resolved(IF i # 0 THEN "found" ELSE "notfound")
           /\ diag' = IF i = 0 THEN Diagnostic ELSE NoDiag
    /\ isReady' = TRUE
    /\ conn' = "up"
    /\ UNCHANGED <<variant, messageQueue, isProcessing, reconnectTimer, readyPc, dpc,
                   dcur, dtries, dbatch, dpend, kicks, flight, kind, arrived, log, enq,
                   nfail, acked, disc, retryPending, retryMark, lastResolve, reentry,
                   atClear, policy, spliceLeft, hung, gapOwed, exited, target, chats,
                   selected, answer, initVars, clientVars, mgmtVars, queueVars>>

\* management.js:141-153 selectGroupByName(target) on the groups of the listing
SelectGroupByName ==
    /\ selected = -1
    /\ selected' = Find({k \in DOMAIN chats : IsSelected(chats[k])})
    /\ UNCHANGED <<bridgeVars, target, chats, resolved, diag, answer, initVars,
                   clientVars, mgmtVars, queueVars>>

NextResolve ==
    \/ FindTarget
    \/ SelectGroupByName

SpecResolve == InitResolve /\ [][NextResolve]_vars

\* ------------------------------------------------------------------- properties
DrainSends == {i \in DOMAIN log : log[i].via = "drain"}
DrainCount(j) == Cardinality({i \in DrainSends : log[i].job = j})
Active == {d \in DrainIds : dpc[d] # "idle"}
EnqPos(j) == CHOOSE i \in DOMAIN enq : enq[i] = j

TypeOK ==
    /\ variant \in Variants
    /\ isReady \in BOOLEAN /\ isProcessing \in BOOLEAN /\ reconnectTimer \in BOOLEAN
    /\ handle \in {NoHandle, Group}
    /\ conn \in {"init", "up", "down", "failed"}
    /\ readyPc \in {"idle", "chats", "notify", "upload"}
    /\ \A d \in DrainIds :
          /\ dpc[d] \in {"idle", "send", "dl", "retrywait", "delay", "batch", "gap"}
          /\ dcur[d] \in 0..Cap /\ dtries[d] \in 0..RETRIES
          /\ dpend[d] \subseteq dbatch[d] /\ dbatch[d] \subseteq Jobs
    /\ kicks \in 0..MaxKicks
    /\ arrived \in 0..Cap
    /\ \A j \in Jobs : flight[j] \in {"none", "dl", "send"} /\ nfail[j] \in 0..FailCap
    /\ \A i \in DOMAIN messageQueue : messageQueue[i] \in 1..arrived
    /\ acked \subseteq 1..arrived
    /\ \A j \in Jobs : atClear[j] \in {"none", "queued", "inflight"}
    /\ policy \subseteq {"requeued", "dropped"}
    /\ initAttempts \in 0..MaxInitAttempts /\ initTimers \in 0..MaxInitTimers
    /\ initCalls \in [fresh : 0..MaxInitCalls, stale : 0..MaxInitCalls]
    /\ sock \in {"none", "connecting", "open", "closed"}
    /\ adminTold \in BOOLEAN /\ orphans \in 0..MaxOrphans
    /\ failsInRow \in 0..MaxInitAttempts
    /\ initEv \in {"none", "begun", "post", "created", "failed", "open", "close", "restart"}
    /\ isInitializing \in BOOLEAN /\ whatsappClient \in 0..MaxClients
    /\ clients \in [ClientIds -> {"none", "initialising", "connected", "aborted", "gone"}]
    /\ clientTimers \in 0..MaxClientTimers /\ restarting \in 0..MaxRestarts
    /\ currentGroupId \in 0..MaxChats /\ loads \in 0..MaxLoads /\ mtimer \in BOOLEAN
    /\ menuPc \in {"idle", "groups", "settings"}
    /\ mclient \in {"initialising", "connected", "lost"}
    /\ \A k \in DOMAIN availableGroups : availableGroups[k] \in DOMAIN chats
    /\ running \subseteq 1..added /\ added \in 0..MaxAdds /\ cleared \in 0..MaxClears
    /\ intervalCount \in 0..INTERVAL_CAP
    /\ \A i \in DOMAIN pqueue : pqueue[i] \in 1..added
    /\ spliceLeft \in 0..Cap
    /\ hung \subseteq Jobs /\ Cardinality(hung) <= MaxHung
    /\ disc \in 0..MaxDisc
    /\ retryPending \in 0..Cap
    /\ lastResolve \in {"none", "found", "notfound", "error"}
    /\ gapOwed \in BOOLEAN
    /\ exited \in BOOLEAN
    /\ answer \in [via : {"none", "health", "status"}, reports : BOOLEAN,
                   ready : BOOLEAN, queue : 0..Cap]

\* C1, as stated: every sendMessage call made by the drain function is made with
\* the gate open (readiness flag true and destination handle not null), whatever
\* disconnects and 'ready' events happened while the drain cycle was suspended.
C1_DrainSendsOnlyWhenOpen == \A i \in DrainSends : log[i].open

\* C2: at most one activation of the drain function is in progress at any time, it
\* runs with isProcessing set, and in the variants that never reinsert a job no job
\* is handed to sendMessage twice by the drain function.
C2_OneDrainCycle ==
    /\ Cardinality(Active) <= 1
    /\ Active # {} => isProcessing
    /\ variant \in {"idxB", "idxC", "p002", "p003A", "p005"} =>
          \A j \in Jobs : DrainCount(j) <= 1

\* C2 witness: in part_005 a scheduled call of the drain function was refused
\* because isProcessing was set, and the batch it ran into is still in progress.
C2_Witness ==
    /\ variant = "p005"
    /\ reentry
    /\ isProcessing
    /\ \E d \in DrainIds : dpc[d] = "batch" /\ Cardinality(dbatch[d]) >= 2

\* C3: while no download and no send has failed, the drain function hands the jobs
\* to sendMessage in the order in which they were appended to the queue.
C3_FifoNoFailures ==
    TotalFails = 0 =>
        \A a, b \in DrainSends :
            a < b => /\ log[a].job \in Range(enq)
                     /\ log[b].job \in Range(enq)
                     /\ EnqPos(log[a].job) < EnqPos(log[b].job)

\* C3 witness: in idxB three jobs were queued in the order 1, 2, 3 and the drain loop
\* has handed all three to sendMessage in that order, nothing having failed.
C3_Witness ==
    /\ variant = "idxB"
    /\ enq = <<1, 2, 3>>
    /\ TotalFails = 0
    /\ [i \in DOMAIN log |-> log[i].job] = <<1, 2, 3>>
    /\ \A i \in DOMAIN log : log[i].via = "drain"
    /\ acked = {1, 2, 3}

\* C4, as stated: while a job reinserted at the head of the queue waits for its
\* next attempt, no job that arrived after the reinsertion is handed to sendMessage.
C4_RetryBeforeFreshArrivals == \A i \in DOMAIN log : ~log[i].late

\* C5: in the batched variants every job of a batch is handed to sendMessage
\* exactly once whatever the outcome of its siblings, the batch waits for exactly
\* its unsettled sends, and once it is over every job of it has settled and
\* isProcessing is false again.
C5_BatchIsolation ==
    Batched =>
        /\ \A d \in DrainIds :
              /\ \A j \in dbatch[d] : DrainCount(j) = 1
              /\ dpc[d] = "batch" =>
                    dpend[d] = {j \in dbatch[d] : j \notin acked /\ nfail[j] = 0}
              /\ dpc[d] \in {"gap", "idle"} =>
                    \A j \in dbatch[d] : j \in acked \/ nfail[j] > 0
        /\ Active = {} => ~isProcessing

\* C5 witness: a batch with a failed send and a successful sibling is over and the
\* drain function has returned.
C5_Witness ==
    /\ Batched
    /\ ~isProcessing
    /\ \E d \in DrainIds :
          /\ dpc[d] = "idle"
          /\ \E i, j \in dbatch[d] : i # j /\ nfail[i] > 0 /\ i \notin acked /\ j \in acked

\* C6, as stated: once a batch of the five jobs 1..5 in which exactly job 3 failed is
\* over, job 3 is in the queue exactly once and the other four are not in it.
C6_FailedMemberRequeuedOnce ==
    \A d \in DrainIds :
        ( /\ Batched
          /\ dbatch[d] = {1, 2, 3, 4, 5}
          /\ dpc[d] \in {"gap", "idle"}
          /\ nfail[3] > 0
          /\ acked = {1, 2, 4, 5} )
        => /\ InQueue(3) = 1
           /\ \A j \in {1, 2, 4, 5} : InQueue(j) = 0

\* no handler is suspended and no timer is pending that would call the drain function
Quiescent ==
    /\ readyPc = "idle"
    /\ Active = {}
    /\ kicks = 0
    /\ \A j \in Jobs : flight[j] = "none"
    /\ ~HasPoll

\* C7, as stated, in the form of the state it excludes: after a 'ready' event whose
\* lookup succeeded, with the client connected, jobs in the queue and no failed
\* send, the queue is being drained or a call of the drain function is pending
\* (without it the queue cannot reach size 0 unless a further post arrives).
C7_ReadyResumesDrain ==
    (/\ conn = "up" /\ lastResolve = "found" /\ GateOpen
     /\ TotalFails = 0 /\ Len(messageQueue) > 0) => ~Quiescent

\* C8, as stated: after a 'ready' event whose lookup matched no chat the destination
\* handle is null.
C8_NotFoundKeepsHandleNull == lastResolve = "notfound" => handle = NoHandle

\* C9, as stated: between a 'disconnected' / 'close' event and the next 'ready' event
\* the destination handle is null.
C9_HandleClearedOnDisconnect == conn \in {"down", "init"} /\ disc > 0 => handle = NoHandle

\* C10, as stated: between a 'disconnected' / 'close' event and the next 'ready' /
\* 'open' event the readiness flag is false.
C10_DisconnectClosesGate == conn = "down" => ~isReady

\* C11, as stated: every sendMessage call, made by the drain loop or by the direct
\* path of channel_post (at once or after the awaited download), is made with the
\* readiness flag true and the destination handle not null.
C11_EverySendWithGateOpen == \A i \in DOMAIN log : log[i].open

\* C12, as stated, for the variants with a direct path that do not requeue (index.js
\* 414-830 and 832-1276, part_003 1-445): a post with content is never both handed
\* to the transport by its handler and appended to the queue, and once its handler is
\* over it has been one of the two.
SentDirectly(j) == \E i \in DOMAIN log : log[i].job = j /\ log[i].via = "direct"
Enqueued(j) == \E i \in DOMAIN enq : enq[i] = j
C12_SentOrQueuedNeverBothNeverNeither ==
    variant \in {"idxB", "idxC", "p003A"} =>
        \A j \in 1..arrived :
            /\ ~(SentDirectly(j) /\ Enqueued(j))
            /\ flight[j] = "none" => (SentDirectly(j) \/ Enqueued(j))

\* C15, as stated: within one variant every job whose send finally failed got the
\* same treatment, dropped or reinserted at the head, whatever its kind.
C15_UniformFailurePolicy == Cardinality(policy) <= 1

\* C16, as stated: a job that was in the queue or in flight in the drain loop when
\* the clear command ran is not in the queue afterwards.
C16_ClearedJobsStayOut == \A j \in Jobs : atClear[j] # "none" => InQueue(j) = 0

\* C17: when the batched drain starts a batch, with Q the queue at the splice (the
\* queue before the step, plus the post the same handler has just pushed), it sends
\* exactly the first min(BatchSize, Len(Q)) jobs of Q, in the order of Q, and leaves
\* the other jobs of Q in the queue in their order.
AtSplice ==
    IF Len(enq') = Len(enq) + 1 THEN Append(messageQueue, enq'[Len(enq')])
    ELSE messageQueue
BatchStarts(d) == dpc[d] # "batch" /\ dpc'[d] = "batch"
C17_DequeueBatch ==
    [][\A d \in DrainIds :
          BatchStarts(d) =>
              LET n == Min(BatchSize, Len(AtSplice))
              IN  /\ Len(log') = Len(log) + n
                  /\ \A i \in 1..n : log'[Len(log) + i].job = AtSplice[i]
                  /\ dbatch'[d] = {AtSplice[i] : i \in 1..n}
                  /\ messageQueue' = SubSeq(AtSplice, n + 1, Len(AtSplice))]_vars

\* a batch of full size is in flight and its splice left jobs in the queue
C17_Witness ==
    \E d \in DrainIds :
        /\ dpc[d] = "batch"
        /\ Cardinality(dbatch[d]) = BatchSize
        /\ spliceLeft > 0
        /\ Len(messageQueue) > 0

\* C18: in the batched variants the number of sendMessage calls that have not
\* settled never exceeds the batch size.
PendingSends == {p \in DrainIds \X Jobs : p[2] \in dpend[p[1]]}
C18_BoundedConcurrency == Batched => Cardinality(PendingSends) <= BatchSize

\* as many sends as the batch size are pending while another job waits in the queue
C18_Witness ==
    /\ Batched
    /\ Cardinality(PendingSends) = BatchSize
    /\ Len(messageQueue) > 0

\* C19, as stated, in the state it is about: when the only sends an activation of
\* the drain function still waits for are sends that never settle, no job is left
\* waiting in the queue (from that state on the activation never ends, isProcessing
\* stays set and no later call of the drain function dequeues anything).
WaitsOnHungOnly(d) ==
    \/ dpc[d] = "batch" /\ dpend[d] # {} /\ dpend[d] \subseteq hung
    \/ dpc[d] = "send" /\ dcur[d] \in hung
C19_HungSendLeavesNoJobWaiting ==
    \A d \in DrainIds : WaitsOnHungOnly(d) => Len(messageQueue) = 0

\* C20, as stated: in a step taken with the gate closed (before and after it) the
\* drain function makes no sendMessage call, and a job whose pending send of the
\* drain function fails in that step is in the queue, or still held by the drain
\* function for a retry, after the step.
NoDrainSendInStep == \A i \in DOMAIN log' : i > Len(log) => log'[i].via # "drain"
FailsInDrain(j) == j \in SendPending /\ nfail'[j] > nfail[j]
C20_ClosedGateStopsDispatch ==
    [][~GateOpen /\ ~GateOpen' =>
          /\ NoDrainSendInStep
          /\ \A j \in Jobs : FailsInDrain(j) => InQueue(j)' > 0 \/ j \in InDrain']_vars

\* C14, as stated: after every 'disconnected' or 'close' event a re-initialisation
\* of the outbound client is attempted later, started by a timer: while the client
\* is down the timer that will initialise it again is pending (once the client is
\* down, only the firing of that timer initialises it again).
C14_ReconnectScheduledAfterClose == conn = "down" => reconnectTimer

\* C13, amended: in the variants that reinsert a failed job (part_003 447-683,
\* part_004 1-530 and 532-1406) every post received so far is acknowledged by
\* sendMessage, or in the queue, or held by the drain loop, or still held by the
\* direct path of its channel_post handler (download or send pending), unless a
\* clear command has removed it.
RequeueVariants == {"p003B", "p004A", "p004B"}
C13_NoAcceptedJobLost ==
    variant \in RequeueVariants =>
        \A j \in 1..arrived :
            \/ j \in acked
            \/ InQueue(j) > 0
            \/ j \in InDrain
            \/ flight[j] # "none"
            \/ atClear[j] # "none"

\* a send of the drain loop has failed and the job is back at the head of the queue
C13_Witness ==
    /\ variant \in RequeueVariants
    /\ retryPending # 0
    /\ nfail[retryPending] > 0
    /\ retryPending \notin acked
    /\ atClear[retryPending] = "none"
    /\ Len(messageQueue) > 0 /\ Head(messageQueue) = retryPending

\* C13, as stated: acknowledged, in the queue, or in flight in the drain loop
C13_AckedQueuedOrInDrain ==
    variant \in RequeueVariants =>
        \A j \in 1..arrived :
            j \in acked \/ InQueue(j) > 0 \/ j \in InDrain \/ atClear[j] # "none"

\* C21, as stated, in the state it is about: the gate is open and the queue is not
\* empty, and nothing that would call the drain function is left: no activation
\* runs, no scheduled call or poll exists, the 'ready' handler is over and no
\* download or send of a channel_post handler is pending.
Stranded ==
    /\ GateOpen
    /\ Len(messageQueue) > 0
    /\ Active = {}
    /\ kicks = 0
    /\ ~HasPoll
    /\ readyPc = "idle"
    /\ \A j \in Jobs : flight[j] = "none"
C21_NoStrandedJobs == ~Stranded

\* a stranded queue is left only by a further post, a disconnect or a clear command
C21_StrandedStays ==
    [][Stranded /\ arrived' = arrived /\ conn' = conn /\ Len(messageQueue') > 0
          => Stranded' /\ log' = log]_vars

\* C22, as stated: in the batched variants a batch that ends with jobs left in the
\* queue and the gate open is followed by the inter-batch delay before the next
\* batch starts, and a batch that ends with the queue empty ends the drain
\* (isProcessing false, no further batch).
BatchEnds(d) == dpc[d] = "batch" /\ dpc'[d] # "batch"
C22_DelayBetweenBatches ==
    [][\A d \in DrainIds :
          /\ BatchStarts(d) => ~gapOwed
          /\ BatchEnds(d) /\ Len(messageQueue') = 0 => ~isProcessing' /\ dpc'[d] = "idle"]_vars

\* C23, as stated: after the lookup of a 'ready' handler (and after
\* selectGroupByName) the handle is set if and only if the listing has a chat whose
\* name equals the configured name when case is ignored, and it then refers to such
\* a chat.
SameIgnoringCase(c) == ToLowerCase(c.name) = ToLowerCase(target)
MatchExists == \E i \in DOMAIN chats : SameIgnoringCase(chats[i])
C23_CaseInsensitiveResolution ==
    /\ resolved # -1 =>
          /\ handle # NoHandle <=> MatchExists
          /\ resolved # 0 => SameIgnoringCase(chats[resolved])
    /\ selected # -1 =>
          /\ selected # 0 <=> MatchExists
          /\ selected # 0 => SameIgnoringCase(chats[selected])

\* C29, as stated: a 'ready' handler that finds no chat reports the configured name
\* and the names of the available groups.
C29_DiagnosticListsChats ==
    resolved = 0 =>
        /\ diag.shown /\ diag.target = target
        /\ \A i \in DOMAIN chats : chats[i].isGroup => chats[i].name \in Range(diag.names)

\* C24, as stated: on an 'auth_failure' event in any state the readiness flag
\* becomes false, the destination handle is cleared and a reconnect attempt is
\* scheduled by a timer, exactly as on a disconnect.
AuthFails == conn = "init" /\ conn' = "failed"
C24_AuthFailureHandledLikeDisconnect ==
    [][AuthFails => ~isReady' /\ handle' = NoHandle /\ reconnectTimer']_vars

\* C25, as stated: a session backup that fails, by throwing or by reporting
\* failure, changes none of the readiness flag, the destination handle, the queue
\* and isProcessing, does not end the process, and the 'ready' handler still goes
\* on to the chat listing if it has not looked the destination up yet.
UploadSettles == readyPc = "upload" /\ readyPc' # "upload"
C25_BackupFailureIsolated ==
    [][UploadSettles =>
        /\ UNCHANGED <<isReady, handle, messageQueue, isProcessing>>
        /\ ~exited'
        /\ lastResolve = "none" => readyPc' = "chats"]_vars

\* C26, as stated: a send error of a single job, whatever the shape of the error
\* value, never ends the process and never escapes the drain function: when the
\* pending send of an activation settles, the process goes on, the jobs that were
\* waiting in the queue are still there, and the activation either goes on or has
\* returned with isProcessing reset.
SendSettles(d) == dpc[d] = "send" /\ dpc'[d] # "send"
C26_PerJobFailureBoundary ==
    [][\A d \in DrainIds : SendSettles(d) =>
          /\ ~exited'
          /\ \A j \in Range(messageQueue) : j \in Range(messageQueue')
          /\ dpc'[d] = "idle" => ~isProcessing']_vars

\* C27, as stated: every job the drain loop has removed from the queue and is done
\* with was handed to sendMessage by the drain loop, or its send or download
\* failure was recorded; no queued job, a photo, video or document post in
\* particular, leaves the queue silently. (Where the handle is a chat object, a
\* send with no handle throws before the call; the catch block records it and
\* drops the job.)
DoneWith(j) ==
    /\ j \in Range(enq)
    /\ InQueue(j) = 0
    /\ j \notin InDrain
    /\ atClear[j] = "none"
C27_NoSilentDrop ==
    \A j \in Jobs : DoneWith(j) =>
        \/ \E i \in DOMAIN log : log[i].job = j /\ log[i].via = "drain"
        \/ nfail[j] > 0
        \/ HandleIsObject /\ "dropped" \in policy

\* C28, as stated: the health endpoint and the status command return the current
\* readiness flag and the current queue length in every connection state, and
\* executing them changes none of the readiness flag, the destination handle, the
\* queue and isProcessing.
C28_StatusIsReadOnlySnapshot ==
    [][answer'.via # "none" =>
        /\ answer'.reports
        /\ answer'.ready = isReady' /\ answer'.queue = Len(messageQueue')
        /\ UNCHANGED <<isReady, handle, messageQueue, isProcessing>>]_vars

\* C28, amended: the status command, and the health endpoint of the programs
\* whose endpoint reports them (index.js:1-412, part_003:447-683, part_005), return
\* the current readiness flag and the current queue length, and no query changes
\* the readiness flag, the destination handle, the queue or isProcessing.
C28_Amended ==
    [][answer'.via # "none" =>
        /\ (answer'.via = "status" \/ variant \in {"idxA", "p003B", "p005"}) =>
              /\ answer'.reports
              /\ answer'.ready = isReady' /\ answer'.queue = Len(messageQueue')
        /\ UNCHANGED <<isReady, handle, messageQueue, isProcessing>>]_vars

\* C28 happens: the status command is answered while the client is down, a send
\* of the drain loop is pending and jobs wait in the queue
C28_Witness ==
    /\ answer.via = "status"
    /\ conn = "down" /\ ~isReady
    /\ \E d \in DrainIds : dpc[d] = "send"
    /\ Len(messageQueue) > 0

\* C30: in index.js processMessageQueue each dequeued message is handed to
\* sendMessage at most 3 times in a row with a pause between attempts: the first
\* attempt has 3 attempts left; when an attempt settles no other is made in the
\* same step; after a success the activation goes on to the delay before the
\* next job and the queue is as it was; after a failure with attempts left it
\* waits and keeps the job, which is tried again with one attempt less; only the
\* failure of the last attempt puts the job back at the head of the queue if it
\* is important and drops it otherwise.
AttemptSettles(d) == dpc[d] = "send" /\ dpc'[d] # "send"
C30_BoundedInPlaceRetry ==
    [][variant = "idxA" => \A d \in DrainIds :
        /\ dpc[d] \notin {"send", "retrywait"} /\ dpc'[d] = "send" =>
              dtries'[d] = RETRIES
        /\ dpc[d] = "retrywait" /\ dpc'[d] = "send" =>
              dcur'[d] = dcur[d] /\ dtries'[d] = dtries[d] /\ dtries[d] \in 1..(RETRIES - 1)
        /\ AttemptSettles(d) =>
              LET j == dcur[d]
              IN  /\ log' = log
                  /\ j \in acked' =>
                        dpc'[d] = "delay" /\ dcur'[d] = 0 /\ messageQueue' = messageQueue
                  /\ j \notin acked' /\ dtries[d] > 1 =>
                        /\ dpc'[d] = "retrywait" /\ dcur'[d] = j
                        /\ dtries'[d] = dtries[d] - 1
                        /\ messageQueue' = messageQueue /\ policy' = policy
                  /\ j \notin acked' /\ dtries[d] = 1 =>
                        /\ dpc'[d] = "delay"
                        /\ messageQueue' = IF Important(kind, j) THEN <<j>> \o messageQueue
                                           ELSE messageQueue]_vars

\* C30 happens: the third attempt of an important job has failed and the job is
\* back at the head of the queue
C30_Witness ==
    /\ variant = "idxA"
    /\ \E j \in Jobs :
          /\ nfail[j] = RETRIES /\ Important(kind, j)
          /\ Cardinality({i \in DOMAIN log : log[i].job = j /\ log[i].via = "drain"}) = RETRIES
          /\ Len(messageQueue) > 0 /\ Head(messageQueue) = j

\* C32, as stated: whenever no activation of the drain function is executing (it
\* has returned or has thrown), isProcessing is false.
C32_InProgressFlagNeverStuck == Active = {} => ~isProcessing

\* C33, as stated, as the progress every turn of the drain loop must make for the
\* loop to end when the job at the head fails on every attempt: when the send of an
\* activation has failed for good, either the activation returns or the job is
\* not back in the queue.
FailsForGood(d) ==
    /\ dpc[d] = "send" /\ dpc'[d] \notin {"send", "retrywait"}
    /\ dcur[d] \notin acked'
C33_DrainTerminates ==
    [][\A d \in DrainIds : FailsForGood(d) /\ ~exited' =>
          dpc'[d] = "idle" \/ dcur[d] \notin Range(messageQueue')]_vars

\* C34, as stated: no post is handed to the outbound transport while an older
\* job is still waiting in the queue.
NewEntries == {i \in DOMAIN log' : i > Len(log)}
C34_BacklogBeforeFreshArrivals ==
    [][\A i \in NewEntries : \A j \in Range(messageQueue') : j > log'[i].job]_vars

\* C35, as stated: once a 'ready' event has followed a disconnect, no job is sent
\* before the destination lookup of the new connection is over.
C35_NoDispatchThroughStaleHandle ==
    [][Len(log') > Len(log) => ~(disc > 0 /\ conn' = "up" /\ lastResolve' = "none")]_vars

\* ------------------------------------------- initialisation (part_004:673-833)
\* the catch branch that answers any failure by a new timer (without the test of
\* part_004:822)
RetryAlways(n) == TRUE

\* part_004:822 if (initAttempts < 5)
RetryAllowed(n) == n < MAX_INIT

SockLive == sock \in {"connecting", "open"}

\* initAttempts is set to 0: the calls that are suspended began before the reset
ResetCount ==
    /\ initAttempts' = 0
    /\ failsInRow' = 0
    /\ initCalls' = [fresh |-> 0, stale |-> initCalls.fresh + initCalls.stale]

\* part_004:673-690 initializeWhatsApp up to its first await, with t timers left
\* pending by its caller.  sock.end() of a live socket may report 'close' to that
\* socket's handler (closeSeen), which then sets a reconnect timer (part_004:768-775).
BeginInit(t, closeSeen) ==
    /\ initAttempts < MaxInitAttempts
    /\ initCalls.fresh + initCalls.stale < MaxInitCalls
    /\ closeSeen => SockLive
    /\ initAttempts' = initAttempts + 1
    /\ LET t2 == IF closeSeen THEN t + 1 ELSE t
       IN  t2 <= MaxInitTimers /\ initTimers' = t2
    /\ sock' = "none"
    /\ isReady' = FALSE
    /\ initCalls' = [initCalls EXCEPT !.fresh = @ + 1]
    /\ initEv' = "begun"
    /\ UNCHANGED <<adminTold, failsInRow, orphans>>

\* part_004:775, 824, 1173, 1375 a timer set by setTimeout(initializeWhatsApp, ..) fires
InitTimerFires(closeSeen) ==
    /\ initTimers > 0
    /\ BeginInit(initTimers - 1, closeSeen)
    /\ answer' = NoAnswer
    /\ UNCHANGED <<bridgeRest, lookupVars, clientVars, mgmtVars, queueVars>>

\* part_004:1024-1047 a channel post while isReady is false or no target is known:
\* the post is queued, and initializeWhatsApp is called if none has been tried
PostWhileClosed(k, closeSeen) ==
    /\ arrived < Cap
    /\ k \in Kinds
    /\ ~GateOpen
    /\ arrived' = arrived + 1
    /\ ApplyBridge(Push([Cur EXCEPT !.kd[arrived + 1] = k], arrived + 1))
    /\ IF ~isReady /\ initAttempts = 0
       THEN BeginInit(initTimers, closeSeen)
       ELSE /\ ~closeSeen
            /\ initEv' = "post"
            /\ UNCHANGED <<isReady, initAttempts, initTimers, initCalls, sock, adminTold,
                           failsInRow, orphans>>
    /\ UNCHANGED <<variant, handle, conn, reconnectTimer, readyPc, nfail, acked, disc,
                   lastResolve, flight, lookupVars, clientVars, mgmtVars, queueVars>>

\* part_004:687-816 the rest of the try block of a suspended call c ("fresh" or
\* "stale"): the socket is made and its handlers are registered (ok), or an await
\* rejects and the catch branch of part_004:819-832 runs
InitSettles(c, ok) ==
    /\ initCalls[c] > 0
    /\ initCalls' = [initCalls EXCEPT ![c] = @ - 1]
    /\ IF ok
       THEN /\ sock' = "connecting"
            /\ orphans' = IF SockLive THEN orphans + 1 ELSE orphans
            /\ orphans' <= MaxOrphans
            /\ failsInRow' = IF c = "fresh" THEN 0 ELSE failsInRow
            /\ initEv' = "created"
            /\ UNCHANGED <<initTimers, adminTold>>
       ELSE /\ failsInRow' = IF c = "fresh" THEN failsInRow + 1 ELSE failsInRow
            /\ IF RetryAllowed(initAttempts)
               THEN /\ initTimers < MaxInitTimers
                    /\ initTimers' = initTimers + 1
                    /\ UNCHANGED adminTold
               ELSE /\ adminTold' = TRUE
                    /\ UNCHANGED initTimers
            /\ initEv' = "failed"
            /\ UNCHANGED <<sock, orphans>>
    /\ answer' = NoAnswer
    /\ UNCHANGED <<initAttempts, isReady, bridgeRest, lookupVars, clientVars, mgmtVars, queueVars>>

\* part_004:784-788 connection.update with connection 'open', on the socket sock
\* refers to (o = "cur") or on an orphan, up to the await of setupTargetCommunity
SockOpen(o) ==
    /\ IF o = "cur"
       THEN sock = "connecting" /\ sock' = "open" /\ UNCHANGED orphans
       ELSE orphans > 0 /\ orphans' = orphans - 1 /\ UNCHANGED sock
    /\ isReady' = TRUE
    /\ ResetCount
    /\ initEv' = "open"
    /\ answer' = NoAnswer
    /\ UNCHANGED <<initTimers, adminTold, bridgeRest, lookupVars, clientVars, mgmtVars, queueVars>>

\* part_004:766-783 connection.update with connection 'close'
SockClose(o, loggedOut) ==
    /\ IF o = "cur"
       THEN SockLive /\ sock' = "closed" /\ UNCHANGED orphans
       ELSE orphans > 0 /\ orphans' = orphans - 1 /\ UNCHANGED sock
    /\ IF loggedOut
       THEN UNCHANGED initTimers
       ELSE initTimers < MaxInitTimers /\ initTimers' = initTimers + 1
    /\ initEv' = "close"
    /\ answer' = NoAnswer
    /\ UNCHANGED <<initAttempts, initCalls, failsInRow, adminTold, isReady, bridgeRest,
                   lookupVars, clientVars, mgmtVars, queueVars>>

\* part_004:1161-1174 the restart command, after its reply was sent
Restart(closeSeen) ==
    /\ closeSeen => SockLive
    /\ isReady' = FALSE
    /\ ResetCount
    /\ sock' = "none"
    /\ LET t == initTimers + (IF closeSeen THEN 2 ELSE 1)
       IN  t <= MaxInitTimers /\ initTimers' = t
    /\ initEv' = "restart"
    /\ answer' = NoAnswer
    /\ UNCHANGED <<adminTold, orphans, bridgeRest, lookupVars, clientVars, mgmtVars, queueVars>>

\* part_004:1375 startBot has set the first timer
InitInit ==
    /\ InitBridge
    /\ variant = "p004B"
    /\ target = <<>> /\ chats = <<>> /\ resolved = -1 /\ selected = -1 /\ diag = NoDiag
    /\ ClientIdle
    /\ MgmtIdle
    /\ QueueIdle
    /\ initAttempts = 0
    /\ initTimers = 1
    /\ initCalls = [fresh |-> 0, stale |-> 0]
    /\ sock = "none"
    /\ adminTold = FALSE
    /\ failsInRow = 0
    /\ orphans = 0
    /\ initEv = "none"

NextInit ==
    \/ \E e \in BOOLEAN : InitTimerFires(e)
    \/ \E k \in {"text", "media"}, e \in BOOLEAN : PostWhileClosed(k, e)
    \/ \E c \in {"fresh", "stale"}, ok \in BOOLEAN : InitSettles(c, ok)
    \/ \E o \in {"cur", "orphan"} : SockOpen(o)
    \/ \E o \in {"cur", "orphan"}, lo \in BOOLEAN : SockClose(o, lo)
    \/ \E e \in BOOLEAN : Restart(e)

SpecInit == InitInit /\ [][NextInit]_vars

\* C31: in the part_004 community variant a failed initializeWhatsApp sets a retry
\* timer only while initAttempts < 5; once five calls in a row have failed the
\* failure sets no timer and the admin is told; 'open' and the restart command set
\* initAttempts to 0.
C31_BoundedInitRetries ==
    [][/\ initEv' = "failed" =>
             /\ initTimers' > initTimers <=> initAttempts < MAX_INIT
             /\ initTimers' >= initTimers
             /\ initAttempts >= MAX_INIT => adminTold'
             /\ failsInRow' >= MAX_INIT => initTimers' = initTimers /\ adminTold'
       /\ initEv' \in {"open", "restart"} => initAttempts' = 0]_vars

\* five calls in a row have failed, the fifth set no timer and the admin was told
C31_Witness ==
    /\ initEv = "failed"
    /\ failsInRow = MAX_INIT
    /\ initAttempts = MAX_INIT
    /\ initTimers = 0
    /\ adminTold

\* --------------------------------------------- client lifecycle (index.js:894-1005)
Alive == {c \in ClientIds : clients[c] \in {"initialising", "connected"}}
Made == {c \in ClientIds : clients[c] # "none"}

\* what the steps of the client lifecycle leave alone
ClientFrame ==
    /\ answer' = NoAnswer
    /\ UNCHANGED <<bridgeRest, lookupVars, initVars, mgmtVars, queueVars>>

\* index.js:982, 994, 1003, 1187, 1234 a timer fires and calls initWhatsApp, which
\* runs up to await whatsappClient.initialize() (index.js:894-998)
InitWhatsApp ==
    /\ clientTimers > 0
    /\ clientTimers' = clientTimers - 1
    /\ IF isInitializing
       THEN UNCHANGED <<isInitializing, clients, whatsappClient>>
       ELSE /\ Cardinality(Made) < MaxClients
            /\ LET c == Cardinality(Made) + 1
               IN  /\ clients' = [clients EXCEPT ![c] = "initialising"]
                   /\ whatsappClient' = c
            /\ isInitializing' = TRUE
    /\ UNCHANGED <<isReady, restarting>>
    /\ ClientFrame

\* index.js:958-970 'ready' of client c, up to await findAndSetGroup()
ClientIsReady(c) ==
    /\ clients[c] = "initialising"
    /\ clients' = [clients EXCEPT ![c] = "connected"]
    /\ isReady' = TRUE
    /\ isInitializing' = FALSE
    /\ UNCHANGED <<whatsappClient, clientTimers, restarting>>
    /\ ClientFrame

\* index.js:973-983 'auth_failure' and index.js:985-995 'disconnected' of client c;
\* the client that reports either is taken to be closed by the library
ClientLost(c, ev) ==
    /\ clients[c] = IF ev = "auth_failure" THEN "initialising" ELSE "connected"
    /\ clients' = [clients EXCEPT ![c] = "gone"]
    /\ isReady' = FALSE
    /\ isInitializing' = FALSE
    /\ clientTimers < MaxClientTimers
    /\ clientTimers' = clientTimers + 1
    /\ UNCHANGED <<whatsappClient, restarting>>
    /\ ClientFrame

\* index.js:998-1004 whatsappClient.initialize() of client c rejects
InitError(c) ==
    /\ clients[c] \in {"initialising", "aborted"}
    /\ clients' = [clients EXCEPT ![c] = "gone"]
    /\ isInitializing' = FALSE
    /\ clientTimers < MaxClientTimers
    /\ clientTimers' = clientTimers + 1
    /\ UNCHANGED <<isReady, whatsappClient, restarting>>
    /\ ClientFrame

\* index.js:1177-1187 the restart command after its reply: with a client, up to
\* await whatsappClient.destroy(), which closes the client whatsappClient refers to;
\* without one, to its end
RestartBegins ==
    /\ isReady' = FALSE
    /\ IF whatsappClient = 0
       THEN /\ clientTimers < MaxClientTimers
            /\ clientTimers' = clientTimers + 1
            /\ UNCHANGED <<clients, restarting>>
       ELSE /\ restarting < MaxRestarts
            /\ restarting' = restarting + 1
            /\ clients' = [clients EXCEPT ![whatsappClient] =
                              CASE @ = "initialising" -> "aborted"
                                [] @ = "connected" -> "gone"
                                [] OTHER -> @]
            /\ UNCHANGED clientTimers
    /\ UNCHANGED <<isInitializing, whatsappClient>>
    /\ ClientFrame

\* index.js:1187 the restart command after destroy() has settled
RestartEnds ==
    /\ restarting > 0
    /\ restarting' = restarting - 1
    /\ clientTimers < MaxClientTimers
    /\ clientTimers' = clientTimers + 1
    /\ UNCHANGED <<isReady, isInitializing, clients, whatsappClient>>
    /\ ClientFrame

\* index.js:1234-1236 the start of the program has set the first timer
InitClient ==
    /\ InitBridge
    /\ variant = "idxC"
    /\ target = <<>> /\ chats = <<>> /\ resolved = -1 /\ selected = -1 /\ diag = NoDiag
    /\ InitIdle
    /\ MgmtIdle
    /\ QueueIdle
    /\ isInitializing = FALSE
    /\ clients = [c \in ClientIds |-> "none"]
    /\ whatsappClient = 0
    /\ clientTimers = 1
    /\ restarting = 0

NextClient ==
    \/ InitWhatsApp
    \/ \E c \in ClientIds : ClientIsReady(c)
    \/ \E c \in ClientIds, ev \in {"auth_failure", "disconnected"} : ClientLost(c, ev)
    \/ \E c \in ClientIds : InitError(c)
    \/ RestartBegins
    \/ RestartEnds

SpecClient == InitClient /\ [][NextClient]_vars

\* C36: in the RemoteAuth variant of index.js a call of initWhatsApp while
\* isInitializing is true makes no client, and at every moment at most one client
\* made by initWhatsApp is initialising or connected.
C36_SingleClientInitialisation ==
    [][/\ isInitializing /\ clientTimers' < clientTimers => clients' = clients
       /\ Cardinality({c \in ClientIds : clients'[c] \in {"initialising", "connected"}}) <= 1]_vars

\* ----------------------------------------------------- management bot (management.js)
\* In SpecManage isReady is management.js:12 isReady, chats is what getChats() of the
\* management bot's client returns, and target is settings.groupName.

\* management.js:126-133 chats.filter(chat => chat.isGroup), as indices in chats
IsGroupAt(i) == chats[i].isGroup
GroupsOf == SelectSeq([i \in DOMAIN chats |-> i], IsGroupAt)

\* management.js:142-144, 445-447 g.name.toLowerCase().includes(text.toLowerCase())
Matching(text) ==
    {k \in DOMAIN availableGroups :
        Includes(ToLowerCase(chats[availableGroups[k]].name), ToLowerCase(text))}

\* management.js:146-149, 298-300, 452-455 the group at position k of availableGroups
\* becomes the current group and its name is saved
Choose(k) ==
    /\ currentGroupId' = availableGroups[k]
    /\ target' = chats[availableGroups[k]].name

\* what the steps of the management bot leave alone
MgmtFrame ==
    /\ answer' = NoAnswer
    /\ UNCHANGED <<bridgeRest, chats, resolved, selected, diag, initVars, clientVars,
                   queueVars>>

\* management.js:102-105 'ready', up to await loadGroups()
MgmtReady ==
    /\ mclient = "initialising"
    /\ menuPc = "idle"
    /\ mclient' = "connected"
    /\ isReady' = TRUE
    /\ menuPc' = "groups"
    /\ UNCHANGED <<currentGroupId, availableGroups, loads, mtimer, target>>
    /\ MgmtFrame

\* management.js:105-107, 125-139 loadGroups of the 'ready' handler settles (getChats
\* resolved or rejected), up to await loadSettings()
MgmtGroupsLoaded(ok) ==
    /\ menuPc = "groups"
    /\ availableGroups' = IF ok THEN GroupsOf ELSE availableGroups
    /\ menuPc' = "settings"
    /\ UNCHANGED <<isReady, currentGroupId, loads, mclient, mtimer, target>>
    /\ MgmtFrame

\* management.js:107-112, 141-153 the 'ready' handler after loadSettings:
\* selectGroupByName(settings.groupName)
MgmtSettingsLoaded ==
    /\ menuPc = "settings"
    /\ menuPc' = "idle"
    /\ LET k == Find(Matching(target))
       IN  IF k # 0 THEN Choose(k) ELSE UNCHANGED <<currentGroupId, target>>
    /\ UNCHANGED <<isReady, availableGroups, loads, mclient, mtimer>>
    /\ MgmtFrame

\* management.js:115-120 'disconnected'
MgmtDisconnected ==
    /\ mclient = "connected"
    /\ mclient' = "lost"
    /\ isReady' = FALSE
    /\ currentGroupId' = 0
    /\ UNCHANGED <<availableGroups, menuPc, loads, mtimer, target>>
    /\ MgmtFrame

\* management.js:202-210, 266-274, 316-324 the groups command and the change_group
\* and refresh_groups callbacks, up to await loadGroups()
RefreshGroups ==
    /\ isReady
    /\ loads < MaxLoads
    /\ loads' = loads + 1
    /\ UNCHANGED <<isReady, currentGroupId, availableGroups, menuPc, mclient, mtimer,
                   target>>
    /\ MgmtFrame

\* management.js:125-139 loadGroups of a command or callback settles
GroupsRefreshed(ok) ==
    /\ loads > 0
    /\ loads' = loads - 1
    /\ availableGroups' = IF ok THEN GroupsOf ELSE availableGroups
    /\ UNCHANGED <<isReady, currentGroupId, menuPc, mclient, mtimer, target>>
    /\ MgmtFrame

\* management.js:223-243 /setgroup <text>
SetGroup(text) ==
    /\ IF isReady /\ Find(Matching(text)) # 0
       THEN Choose(Find(Matching(text)))
       ELSE UNCHANGED <<currentGroupId, target>>
    /\ UNCHANGED <<isReady, availableGroups, menuPc, loads, mclient, mtimer>>
    /\ MgmtFrame

\* management.js:292-314 the callback select_group_<index>
SelectGroupAction(index) ==
    /\ IF index + 1 \in DOMAIN availableGroups
       THEN Choose(index + 1)
       ELSE UNCHANGED <<currentGroupId, target>>
    /\ UNCHANGED <<isReady, availableGroups, menuPc, loads, mclient, mtimer>>
    /\ MgmtFrame

\* management.js:433-469 a text message that is no command
TextSearch(text) ==
    /\ IF isReady /\ Cardinality(Matching(text)) = 1
       THEN Choose(Find(Matching(text)))
       ELSE UNCHANGED <<currentGroupId, target>>
    /\ UNCHANGED <<isReady, availableGroups, menuPc, loads, mclient, mtimer>>
    /\ MgmtFrame

\* management.js:355-365, 422-430 the reconnect and new_qr callbacks: the client is
\* destroyed and a timer is set
Reconnect ==
    /\ ~mtimer
    /\ mclient' = "lost"
    /\ mtimer' = TRUE
    /\ UNCHANGED <<isReady, currentGroupId, availableGroups, menuPc, loads, target>>
    /\ MgmtFrame

\* management.js:38-123 the timer fires: initWhatsApp makes a new client
MgmtInitWhatsApp ==
    /\ mtimer
    /\ mtimer' = FALSE
    /\ mclient' = "initialising"
    /\ UNCHANGED <<isReady, currentGroupId, availableGroups, menuPc, loads, target>>
    /\ MgmtFrame

\* management.js:482 the start of the management bot, with a saved group name
InitManage ==
    /\ InitBridge
    /\ variant = "idxA"
    /\ target \in Names
    /\ chats \in Listings
    /\ resolved = -1 /\ selected = -1 /\ diag = NoDiag
    /\ InitIdle
    /\ ClientIdle
    /\ MgmtIdle
    /\ QueueIdle

NextManage ==
    \/ MgmtReady
    \/ \E ok \in BOOLEAN : MgmtGroupsLoaded(ok)
    \/ MgmtSettingsLoaded
    \/ MgmtDisconnected
    \/ RefreshGroups
    \/ \E ok \in BOOLEAN : GroupsRefreshed(ok)
    \/ \E text \in Names : SetGroup(text)
    \/ \E index \in 0..(MaxChats - 1) : SelectGroupAction(index)
    \/ \E text \in Names : TextSearch(text)
    \/ Reconnect
    \/ MgmtInitWhatsApp

SpecManage == InitManage /\ [][NextManage]_vars

\* C37: in the management bot currentGroupId is non-null only while isReady is true
\* (a disconnect clears it, and setgroup, select_group_N and the text search do not
\* set it while WhatsApp is not connected).
C37_SelectionOnlyWhileReady == currentGroupId # 0 => isReady

\* ------------------------------------------------------ MessageQueue (messageQueue.js)
\* this.queue is a PQueue of the p-queue package with concurrency 3, interval 100 ms
\* and intervalCap 5: an added function is put at the end of the queue, and the
\* function at the head is started whenever fewer than 3 are running and fewer than
\* 5 were started in the current interval.

\* a queue that starts the head whatever is running (without concurrency: 3)
HasRoomAlways(n) == TRUE

\* messageQueue.js:6 concurrency: 3
HasRoom(n) == n < CONCURRENCY

\* messageQueue.js:7-8 interval: 100, intervalCap: 5
IntervalAllows(n) == n < INTERVAL_CAP

\* the queue S (a record of pqueue, running, started, intervalCount) after the
\* function at its head was started
StartHead(S) ==
    [q |-> Tail(S.q), run |-> S.run \cup {Head(S.q)}, st |-> Append(S.st, Head(S.q)),
     ic |-> S.ic + 1]

CanStart(S) == S.q # <<>> /\ HasRoom(Cardinality(S.run)) /\ IntervalAllows(S.ic)

\* at most one function is started (after add and after a function has settled)
TryToStartAnother(S) == IF CanStart(S) THEN StartHead(S) ELSE S

\* functions are started while that is allowed (when a new interval begins)
RECURSIVE ProcessQueue(_)
ProcessQueue(S) == IF CanStart(S) THEN ProcessQueue(StartHead(S)) ELSE S

QueueNow == [q |-> pqueue, run |-> running, st |-> started, ic |-> intervalCount]

SetQueue(S) ==
    /\ pqueue' = S.q
    /\ running' = S.run
    /\ started' = S.st
    /\ intervalCount' = S.ic

\* what the steps of MessageQueue leave alone
QueueFrame ==
    /\ answer' = NoAnswer
    /\ UNCHANGED <<bridgeVars, lookupVars, initVars, clientVars, mgmtVars>>

\* messageQueue.js:17-19 add(fn)
Add ==
    /\ added < MaxAdds
    /\ added' = added + 1
    /\ SetQueue(TryToStartAnother([QueueNow EXCEPT !.q = Append(@, added + 1)]))
    /\ UNCHANGED cleared
    /\ QueueFrame

\* a running function f settles
Settles(f) ==
    /\ f \in running
    /\ SetQueue(TryToStartAnother([QueueNow EXCEPT !.run = @ \ {f}]))
    /\ UNCHANGED <<added, cleared>>
    /\ QueueFrame

\* messageQueue.js:7 the interval of 100 ms ends
IntervalEnds ==
    /\ intervalCount > 0
    /\ SetQueue(ProcessQueue([QueueNow EXCEPT !.ic = 0]))
    /\ UNCHANGED <<added, cleared>>
    /\ QueueFrame

\* messageQueue.js:25-27 clear()
ClearQueue ==
    /\ cleared < MaxClears
    /\ cleared' = cleared + 1
    /\ pqueue' = <<>>
    /\ UNCHANGED <<running, started, added, intervalCount>>
    /\ QueueFrame

\* messageQueue.js:21-23 get size()
Size == Len(pqueue)

InitQueue == Init /\ variant = "idxA"

NextQueue ==
    \/ Add
    \/ \E f \in 1..MaxAdds : Settles(f)
    \/ IntervalEnds
    \/ ClearQueue

SpecQueue == InitQueue /\ [][NextQueue]_vars

====
